---- MODULE Spec2Model ----
(***************************************************************************)
(* Model of the semantic chunking engine of the document search backend    *)
(* (src/backend/utils/smart_chunker.py) and of the upload route that       *)
(* calls it, with the embedding and vector-store services                  *)
(* (src/backend/routes/upload.py, services/embedding.py,                   *)
(* services/qdrant_service.py, utils/text_cleaner.py).                     *)
(*                                                                         *)
(* A Python str is a sequence of one-character strings.  The character     *)
(* classes are those the regular expressions and str methods of the source *)
(* distinguish; the alphabet of the checked inputs is ASCII letters, ".",  *)
(* space, tab, newline and one control character.                          *)
(***************************************************************************)
EXTENDS Integers, Sequences, FiniteSets, TLC

VARIABLES
    cfg,            \* self.config: [target, min, max, overlap]
    raw,            \* the text argument of chunk_document
    document_name,  \* the document_name argument of chunk_document
    text,           \* the text variable of _preprocess_text / cleaned_text
    paragraphs,     \* the paragraphs argument of _create_semantic_chunks
    idx,            \* number of paragraphs the for loop has consumed
    chunks,         \* chunks (list of emitted chunk texts)
    current_chunk,  \* current_chunk
    current_size,   \* current_size
    pc,             \* position in chunk_document / _create_semantic_chunks
    final,          \* the list chunk_document returns
    branches,       \* history: the branch taken for each consumed paragraph
    forced,         \* history: current_chunk holds a force-appended paragraph
    origin,         \* history: for each emitted chunk, [by, forced]: the
                    \* statement that emitted it and the value of forced then
    log,            \* history: the chunk_document calls one SmartChunker
                    \* instance has completed, [raw, document_name, final]
    \* routes/upload.py, upload_file
    file,           \* the UploadFile: [size, content_type, filename, extracted]
    steps,          \* history: the functions upload_file has called
    response,       \* the HTTP response: [status, detail]
    \* services/embedding.py, get_embedding / _make_embedding_request
    max_retries,    \* max_retries
    attempt,        \* attempt, the loop variable of get_embedding
    timeout_i,      \* i, the loop variable of _make_embedding_request
    requests,       \* history: number of _make_embedding_request calls
    posts,          \* history: [attempt, i, outcome] of every client.post
    last_exception, \* last_exception
    embedding,      \* what get_embedding returned or raised
    \* services/embedding.py, embed_chunks
    embed_input,    \* the chunks argument of embed_chunks
    task,           \* the state of each embed_single task
    gathered,       \* what asyncio.gather returned or raised
    items_to_insert,\* items_to_insert of upload_file
    \* services/qdrant_service.py, insert_vectors_batch
    items,          \* the items argument
    batch_size,     \* batch_size
    generate_ids,   \* generate_ids
    item_i,         \* number of items the for loop has consumed
    batch,          \* batch
    upserts,        \* history: the points of every client.upsert call
    inserted        \* how insert_vectors_batch ended

\* the state of a chunk_document call, but for the position
chunkerLocals == <<cfg, raw, document_name, text, paragraphs, idx, chunks, current_chunk,
                   current_size, final, branches, forced, origin>>

chunkerVars == <<chunkerLocals, pc>>

uploadVars == <<file, steps, response>>

embeddingVars == <<max_retries, attempt, timeout_i, requests, posts, last_exception, embedding>>

gatherVars == <<embed_input, task, gathered, items_to_insert>>

insertVars == <<items, batch_size, generate_ids, item_i, batch, upserts, inserted>>

svcVars == <<log, uploadVars, embeddingVars, gatherVars, insertVars>>

vars == <<chunkerVars, svcVars>>

\* no upload is being served
UploadIdle ==
    /\ file = [size |-> 0, content_type |-> "", filename |-> "", extracted |-> <<>>]
    /\ steps = <<>>
    /\ response = [status |-> 0, detail |-> ""]

\* no get_embedding call is running
EmbeddingIdle ==
    /\ max_retries = 0
    /\ attempt = 0
    /\ timeout_i = 0
    /\ requests = 0
    /\ posts = <<>>
    /\ last_exception = "None"
    /\ embedding = "None"

\* no embed_chunks call is running
GatherIdle ==
    /\ embed_input = <<>>
    /\ task = <<>>
    /\ gathered = [kind |-> "None", value |-> <<>>]
    /\ items_to_insert = <<>>

\* no insert_vectors_batch call is running
InsertIdle ==
    /\ items = <<>>
    /\ batch_size = 0
    /\ generate_ids = FALSE
    /\ item_i = 0
    /\ batch = <<>>
    /\ upserts = <<>>
    /\ inserted = "None"

\* the chunker is called on its own: one chunk_document call, no service
SvcIdle ==
    /\ log = <<>>
    /\ UploadIdle
    /\ EmbeddingIdle
    /\ GatherIdle
    /\ InsertIdle

----------------------------------------------------------------------------
(* Character classes                                                       *)

Upper == {"A","B","C","D","E","F","G","H","I","J","K","L","M",
          "N","O","P","Q","R","S","T","U","V","W","X","Y","Z"}
Lower == {"a","b","c","d","e","f","g","h","i","j","k","l","m",
          "n","o","p","q","r","s","t","u","v","w","x","y","z"}
Digit == {"0","1","2","3","4","5","6","7","8","9"}
\* \s and the separators of str.split(), restricted to the model's alphabet
WS == {" ", "\t", "\n"}
\* the control character of the alphabet: not printable, not whitespace
CTL == "\\0"

\* NO-BREAK SPACE, which NFKC normalization turns into a space
NBSP == "nbsp"
\* the bullet markers [\u2022\-\*] of paragraph_breaks and _classify_chunk_type
Bullet == {"bullet", "-", "*"}
\* \w, for the \b of the OCR patterns
WordChar == Upper \cup Lower \cup Digit \cup {"_"}

isalpha(c) == c \in Upper \cup Lower
isprintable(c) == c \notin {"\t", "\n", CTL}

\* unicodedata.normalize("NFKC", text), character by character
nfkc(s) == [i \in 1..Len(s) |-> IF s[i] = NBSP THEN " " ELSE s[i]]

----------------------------------------------------------------------------
(* str methods                                                             *)

\* indices at which a whitespace-delimited word starts
WordStarts(s) ==
    {i \in 1..Len(s) : s[i] \notin WS /\ (i = 1 \/ s[i-1] \in WS)}

\* len(s.split())
WordCount(s) == Cardinality(WordStarts(s))

\* end (inclusive) of the word starting at i
RECURSIVE WordEnd(_, _)
WordEnd(s, i) ==
    IF i < Len(s) /\ s[i+1] \notin WS THEN WordEnd(s, i+1) ELSE i

\* the indices of s, in order
Indices(s) == [i \in 1..Len(s) |-> i]

\* the indices at which a word starts, in order
WordStartSeq(s) ==
    SelectSeq(Indices(s), LAMBDA i : s[i] \notin WS /\ (i = 1 \/ s[i-1] \in WS))

\* s.split()
split(s) ==
    LET starts == WordStartSeq(s)
    IN [k \in 1..Len(starts) |-> SubSeq(s, starts[k], WordEnd(s, starts[k]))]

\* s.strip()
strip(s) ==
    LET nz == {i \in 1..Len(s) : s[i] \notin WS}
    IN IF nz = {} THEN <<>>
       ELSE SubSeq(s, CHOOSE i \in nz : \A j \in nz : i <= j,
                      CHOOSE i \in nz : \A j \in nz : j <= i)

\* sep.join(parts[lo..hi])
RECURSIVE JoinRange(_, _, _, _)
JoinRange(sep, parts, lo, hi) ==
    IF lo > hi THEN <<>>
    ELSE IF lo = hi THEN parts[lo]
    ELSE LET mid == (lo + hi) \div 2
         IN JoinRange(sep, parts, lo, mid) \o sep \o JoinRange(sep, parts, mid + 1, hi)

\* sep.join(parts)
join(sep, parts) == JoinRange(sep, parts, 1, Len(parts))

\* s[1] \o s[2] \o ... for a sequence of sequences, from lo to hi
RECURSIVE FlattenRange(_, _, _)
FlattenRange(ss, lo, hi) ==
    IF lo > hi THEN <<>>
    ELSE IF lo = hi THEN ss[lo]
    ELSE LET mid == (lo + hi) \div 2
         IN FlattenRange(ss, lo, mid) \o FlattenRange(ss, mid + 1, hi)

\* re.sub and re.split scan for the leftmost match and go on after it.
\* ends[i] is the index after the match that starts at i (0: no match at i).
\* The scan takes the match at m unless m lies inside a match it took before.
RECURSIVE Taken(_, _)
Taken(ends, m) ==
    /\ ends[m] # 0
    /\ \A b \in 1..(m - 1) : (ends[b] > m) => ~Taken(ends, b)

\* the starts of the matches the scan takes, in order
MatchStarts(ends) == SelectSeq(Indices(ends), LAMBDA m : Taken(ends, m))

\* pattern.sub(reps, s): reps[m] replaces the match that starts at m
re_sub(s, ends, reps) ==
    LET starts == MatchStarts(ends)
        n == Len(starts)
        from(k) == IF k = 1 THEN 1 ELSE ends[starts[k - 1]]
    IN FlattenRange([k \in 1..(n + 1) |->
                        IF k <= n
                        THEN SubSeq(s, from(k), starts[k] - 1) \o reps[starts[k]]
                        ELSE SubSeq(s, from(k), Len(s))],
                    1, n + 1)

\* pattern.split(s): the pieces between the matches the scan takes
re_split(s, ends) ==
    LET starts == MatchStarts(ends)
        n == Len(starts)
        from(k) == IF k = 1 THEN 1 ELSE ends[starts[k - 1]]
    IN [k \in 1..(n + 1) |->
           SubSeq(s, from(k), IF k <= n THEN starts[k] - 1 ELSE Len(s))]

\* parts[-n:] for n > 0
LastN(parts, n) ==
    IF Len(parts) <= n THEN parts
    ELSE SubSeq(parts, Len(parts) - n + 1, Len(parts))

----------------------------------------------------------------------------
(* SmartChunker.__init__: sentence_endings                                 *)

\* first index >= i that does not hold whitespace (Len(s)+1 when none): the
\* end of the greedy \s+ or \s* that starts at i
RECURSIVE SkipWS(_, _)
SkipWS(s, i) ==
    IF i <= Len(s) /\ s[i] \in WS THEN SkipWS(s, i+1) ELSE i

\* first index >= i that does not hold a digit: the end of \d+
RECURSIVE SkipDigits(_, _)
SkipDigits(s, i) ==
    IF i <= Len(s) /\ s[i] \in Digit THEN SkipDigits(s, i+1) ELSE i

\* A match of sentence_endings that starts at index i ends before index
\* SentenceMatchEnd(s, i); 0 when no alternative matches at i.
\*   (?<=[.!?])\s+(?=[A-Z]) | (?<=\.)\s+(?=\d+\.) | (?<=:]\s)\s*(?=[A-Z])
SentenceMatchEnd(s, i) ==
    LET j == SkipWS(s, i)
        k == SkipDigits(s, j)
    IN IF /\ i > 1 /\ s[i-1] \in {".", "!", "?"}
          /\ j > i /\ j <= Len(s) /\ s[j] \in Upper
       THEN j
       ELSE IF /\ i > 1 /\ s[i-1] = "."
               /\ j > i /\ k > j /\ k <= Len(s) /\ s[k] = "."
       THEN j
       ELSE IF /\ i > 3 /\ s[i-3] = ":" /\ s[i-2] = "]" /\ s[i-1] \in WS
               /\ j <= Len(s) /\ s[j] \in Upper
       THEN j
       ELSE 0

\* sentence_endings.split(s)
sentence_endings_split(s) ==
    re_split(s, [i \in 1..Len(s) |-> SentenceMatchEnd(s, i)])

----------------------------------------------------------------------------
(* SmartChunker._preprocess_text                                           *)

\* first index >= i that does not hold a character of class cls
RECURSIVE SkipClass(_, _, _)
SkipClass(s, cls, i) ==
    IF i <= Len(s) /\ s[i] \in cls THEN SkipClass(s, cls, i+1) ELSE i

\* re.sub(r"\b<pat>\b", rep, s) for a literal pat that starts and ends with
\* a word character
sub_word(pat, rep, s) ==
    re_sub(s,
           [i \in 1..Len(s) |->
               LET e == i + Len(pat) - 1
               IN IF /\ e <= Len(s)
                     /\ SubSeq(s, i, e) = pat
                     /\ (i = 1 \/ s[i-1] \notin WordChar)
                     /\ (e = Len(s) \/ s[e+1] \notin WordChar)
                  THEN e + 1 ELSE 0],
           [i \in 1..Len(s) |-> rep])

\* re.sub(r"<cls>{n,}", rep, s), n >= 1: greedy, so a match at i takes the
\* whole run of cls that starts at i
sub_runs(cls, n, rep, s) ==
    re_sub(s,
           [i \in 1..Len(s) |->
               LET j == SkipClass(s, cls, i)
               IN IF j - i >= n THEN j ELSE 0],
           [i \in 1..Len(s) |-> rep])

\* re.sub(r"([a-z])([A-Z])", r"\1 \2", s)
sub_camel(s) ==
    re_sub(s,
           [i \in 1..Len(s) |->
               IF i < Len(s) /\ s[i] \in Lower /\ s[i+1] \in Upper
               THEN i + 2 ELSE 0],
           [i \in 1..Len(s) |->
               IF i < Len(s) THEN <<s[i], " ", s[i+1]>> ELSE <<>>])

\* self.ocr_fixes, applied in list order
ocr_fixes(s) ==
    LET t1 == sub_word(<<"o","f","f","i"," ","c","e">>, <<"o","f","f","i","c","e">>, s)
        t2 == sub_word(<<"t","h","e"," ","m">>, <<"t","h","e","m">>, t1)
        t3 == sub_word(<<"w","i","t","h"," ","i","n">>, <<"w","i","t","h","i","n">>, t2)
        t4 == sub_word(<<"o","v","e","r"," ","a","l","l">>,
                       <<"o","v","e","r","a","l","l">>, t3)
        t5 == sub_runs(WS, 2, <<" ">>, t4)
    IN sub_camel(t5)

\* "".join(char for char in text if char.isprintable() or char in "\n\t")
keep_printable(s) ==
    SelectSeq(s, LAMBDA c : isprintable(c) \/ c \in {"\n", "\t"})

\* re.sub(r"\n[ \t]*\n", "\n\n", s)
sub_blank_lines(s) ==
    re_sub(s,
           [i \in 1..Len(s) |->
               LET j == SkipClass(s, {" ", "\t"}, i + 1)
               IN IF s[i] = "\n" /\ j <= Len(s) /\ s[j] = "\n"
                  THEN j + 1 ELSE 0],
           [i \in 1..Len(s) |-> <<"\n", "\n">>])

preprocess_text(s) ==
    LET t1 == nfkc(s)
        t2 == ocr_fixes(t1)
        t3 == keep_printable(t2)
        t4 == sub_runs({" ", "\t"}, 1, <<" ">>, t3)
        t5 == sub_blank_lines(t4)
        t6 == sub_runs({"\n"}, 3, <<"\n", "\n">>, t5)
    IN strip(t6)

----------------------------------------------------------------------------
(* SmartChunker._is_meaningful_text                                        *)

\* the filter with the two ratio thresholds excluded
is_meaningful_text_exclusive(t) ==
    LET words == split(t)
        alpha_chars == Cardinality({i \in 1..Len(t) : isalpha(t[i])})
        distinct == Cardinality({words[k] : k \in 1..Len(words)})
    IN IF Len(words) < 5 THEN FALSE
       ELSE IF alpha_chars * 10 <= Len(t) * 6 THEN FALSE
       ELSE IF distinct * 10 <= Len(words) * 3 THEN FALSE
       ELSE TRUE

\* the divisions of _is_meaningful_text raise ZeroDivisionError when they
\* are reached with len(text) = 0 or len(words) = 0
is_meaningful_text_raises(t) ==
    LET words == split(t)
        alpha_chars == Cardinality({i \in 1..Len(t) : isalpha(t[i])})
    IN IF Len(words) < 5 THEN FALSE
       ELSE IF Len(t) = 0 THEN TRUE
       ELSE IF alpha_chars * 10 < Len(t) * 6 THEN FALSE
       ELSE Len(words) = 0

is_meaningful_text(t) ==
    LET words == split(t)
        alpha_chars == Cardinality({i \in 1..Len(t) : isalpha(t[i])})
        distinct == Cardinality({words[k] : k \in 1..Len(words)})
    IN IF Len(words) < 5 THEN FALSE
       \* alpha_chars / len(text) < 0.6
       ELSE IF alpha_chars * 10 < Len(t) * 6 THEN FALSE
       \* len(set(words)) / len(words) < 0.3
       ELSE IF distinct * 10 < Len(words) * 3 THEN FALSE
       ELSE TRUE

----------------------------------------------------------------------------
(* SmartChunker._split_paragraphs                                          *)

\* A match of paragraph_breaks that starts at index i ends before index
\* ParagraphMatchEnd(s, i); 0 when no alternative matches at i.
\*   \n\s*\n | (?<=\.)\s*\n\s*(?=[A-Z]) | \n\s*(?=\d+\.) | \n\s*(?=[bullet])
ParagraphMatchEnd(s, i) ==
    LET j == SkipWS(s, i)
        k == SkipDigits(s, j)
        later == {n \in (i+1)..(j-1) : s[n] = "\n"}
    IN IF s[i] = "\n" /\ later # {}
       THEN (CHOOSE n \in later : \A m \in later : m <= n) + 1
       ELSE IF /\ i > 1 /\ s[i-1] = "."
               /\ \E n \in i..(j-1) : s[n] = "\n"
               /\ j <= Len(s) /\ s[j] \in Upper
       THEN j
       ELSE IF s[i] = "\n" /\ k > j /\ k <= Len(s) /\ s[k] = "."
       THEN j
       ELSE IF s[i] = "\n" /\ j <= Len(s) /\ s[j] \in Bullet
       THEN j
       ELSE 0

\* paragraph_breaks.split(s)
paragraph_breaks_split(s) ==
    re_split(s, [i \in 1..Len(s) |-> ParagraphMatchEnd(s, i)])

\* the filter loop without the test len(para) > 20
RECURSIVE CleanParagraphsAnyLength(_)
CleanParagraphsAnyLength(ps) ==
    IF ps = <<>> THEN <<>>
    ELSE LET para == strip(Head(ps))
         IN (IF is_meaningful_text(para) THEN <<para>> ELSE <<>>)
                \o CleanParagraphsAnyLength(Tail(ps))

\* the filter loop over the candidate paragraphs
RECURSIVE CleanParagraphs(_)
CleanParagraphs(ps) ==
    IF ps = <<>> THEN <<>>
    ELSE LET para == strip(Head(ps))
         IN (IF Len(para) > 20 /\ is_meaningful_text(para)
             THEN <<para>> ELSE <<>>) \o CleanParagraphs(Tail(ps))

split_paragraphs(s) == CleanParagraphs(paragraph_breaks_split(s))

----------------------------------------------------------------------------
(* SmartChunker._get_overlap_text                                          *)

\* _get_overlap_text without the test len(words) <= overlap_size
get_overlap_text_short_chunk(c, t) ==
    IF t = <<>> \/ c.overlap = 0 THEN <<>>
    ELSE LET words == split(t)
             overlap_text == join(<<" ">>, LastN(words, c.overlap))
             sentences == sentence_endings_split(overlap_text)
         IN IF Len(sentences) > 1
            THEN strip(join(<<".", " ">>, LastN(sentences, 2))) \o <<".">>
            ELSE overlap_text

get_overlap_text(c, t) ==
    IF t = <<>> \/ c.overlap = 0 THEN <<>>
    ELSE LET words == split(t)
         IN IF Len(words) <= c.overlap THEN <<>>
            ELSE LET overlap_text == join(<<" ">>, LastN(words, c.overlap))
                     sentences == sentence_endings_split(overlap_text)
                 IN IF Len(sentences) > 1
                    THEN strip(join(<<".", " ">>, LastN(sentences, 2))) \o <<".">>
                    ELSE overlap_text

----------------------------------------------------------------------------
(* SmartChunker._force_split_by_words                                      *)

\* range(i, n, step) as the sequence of its values, step # 0: a negative
\* step counts down from i to above n
RECURSIVE RangeFrom(_, _, _)
RangeFrom(i, n, step) ==
    IF step > 0
    THEN IF i >= n THEN <<>> ELSE <<i>> \o RangeFrom(i + step, n, step)
    ELSE IF i <= n THEN <<>> ELSE <<i>> \o RangeFrom(i + step, n, step)

\* range(0, len(words), 0) raises ValueError: the paragraph has no sentence
\* boundary and the stride target_chunk_size - overlap_size is 0
\* ForceSplitRaises for every stride
ForceSplitRaisesAnyStride(c, paragraph) ==
    Len(sentence_endings_split(paragraph)) <= 1

ForceSplitRaises(c, paragraph) ==
    /\ Len(sentence_endings_split(paragraph)) <= 1
    /\ c.target - c.overlap = 0

\* words[i : i + size] for a 0-based i
Window(words, i, size) ==
    SubSeq(words, i + 1, IF i + size > Len(words) THEN Len(words) ELSE i + size)

force_split_by_words(c, t) ==
    LET words == split(t)
        starts == RangeFrom(0, Len(words), c.target - c.overlap)
    IN [k \in 1..Len(starts) |-> join(<<" ">>, Window(words, starts[k], c.target))]

----------------------------------------------------------------------------
(* SmartChunker._split_large_paragraph                                     *)

\* the loop over the sentences without the append after the loop
RECURSIVE PackSentencesNoTail(_, _, _)
PackSentencesNoTail(c, sentences, st) ==
    IF sentences = <<>>
    THEN st.chunks
    ELSE LET sentence == strip(Head(sentences))
             sentence_size == WordCount(sentence)
         IN IF sentence = <<>>
            THEN PackSentencesNoTail(c, Tail(sentences), st)
            ELSE IF st.current_size + sentence_size <= c.target
            THEN PackSentencesNoTail(c, Tail(sentences),
                    [chunks |-> st.chunks,
                     current_chunk |-> st.current_chunk \o sentence \o <<".", " ">>,
                     current_size |-> st.current_size + sentence_size])
            ELSE PackSentencesNoTail(c, Tail(sentences),
                    [chunks |-> IF st.current_chunk # <<>>
                                THEN Append(st.chunks, strip(st.current_chunk))
                                ELSE st.chunks,
                     current_chunk |-> sentence \o <<".", " ">>,
                     current_size |-> sentence_size])

\* the loop over the sentences: st = [chunks, current_chunk, current_size]
RECURSIVE PackSentences(_, _, _)
PackSentences(c, sentences, st) ==
    IF sentences = <<>>
    THEN IF st.current_chunk # <<>>
         THEN Append(st.chunks, strip(st.current_chunk))
         ELSE st.chunks
    ELSE LET sentence == strip(Head(sentences))
             sentence_size == WordCount(sentence)
         IN IF sentence = <<>>
            THEN PackSentences(c, Tail(sentences), st)
            ELSE IF st.current_size + sentence_size <= c.target
            THEN PackSentences(c, Tail(sentences),
                    [chunks |-> st.chunks,
                     current_chunk |-> st.current_chunk \o sentence \o <<".", " ">>,
                     current_size |-> st.current_size + sentence_size])
            ELSE PackSentences(c, Tail(sentences),
                    [chunks |-> IF st.current_chunk # <<>>
                                THEN Append(st.chunks, strip(st.current_chunk))
                                ELSE st.chunks,
                     current_chunk |-> sentence \o <<".", " ">>,
                     current_size |-> sentence_size])

split_large_paragraph(c, paragraph) ==
    LET sentences == sentence_endings_split(paragraph)
    IN IF Len(sentences) <= 1
       THEN force_split_by_words(c, paragraph)
       ELSE PackSentences(c, sentences,
                [chunks |-> <<>>, current_chunk |-> <<>>, current_size |-> 0])

----------------------------------------------------------------------------
(* SmartChunker._create_semantic_chunks: one iteration of the paragraph    *)
(* loop.  st = [chunks, current_chunk, current_size].                      *)

\* Branch with the oversized test moved before the flush test
BranchOversizedFirst(c, st, paragraph) ==
    LET para_words == WordCount(paragraph)
    IN IF st.current_size + para_words <= c.target THEN "fits"
       ELSE IF para_words > c.max THEN "oversized"
       ELSE IF st.current_size >= c.min THEN "flush"
       ELSE "force"

\* Branch flushing any non-empty accumulator, whatever min_chunk_size is
BranchFlushAnySize(c, st, paragraph) ==
    LET para_words == WordCount(paragraph)
    IN IF st.current_size + para_words <= c.target THEN "fits"
       ELSE IF st.current_size > 0 THEN "flush"
       ELSE IF para_words > c.max THEN "oversized"
       ELSE "force"

\* the if / elif chain of the loop body
Branch(c, st, paragraph) ==
    LET para_words == WordCount(paragraph)
    IN IF st.current_size + para_words <= c.target THEN "fits"
       ELSE IF st.current_size >= c.min THEN "flush"
       ELSE IF para_words > c.max THEN "oversized"
       ELSE "force"

\* fits_step joining with a blank line also when current_chunk is empty
fits_step_always_sep(c, st, paragraph) ==
    [chunks |-> st.chunks,
     current_chunk |-> st.current_chunk \o <<"\n", "\n">> \o paragraph,
     current_size |-> st.current_size + WordCount(paragraph)]

\* Case 1: paragraph fits in current chunk
fits_step(c, st, paragraph) ==
    [chunks |-> st.chunks,
     current_chunk |-> IF st.current_chunk # <<>>
                       THEN st.current_chunk \o <<"\n", "\n">> \o paragraph
                       ELSE paragraph,
     current_size |-> st.current_size + WordCount(paragraph)]

\* flush_step that counts the words of the paragraph alone
flush_step_paragraph_size(c, st, paragraph) ==
    LET overlap_text == get_overlap_text(c, st.current_chunk)
        new_chunk == IF overlap_text # <<>> THEN overlap_text \o paragraph
                     ELSE paragraph
    IN [chunks |-> IF st.current_chunk # <<>>
                   THEN Append(st.chunks, strip(st.current_chunk))
                   ELSE st.chunks,
        current_chunk |-> new_chunk,
        current_size |-> WordCount(paragraph)]

\* Case 2: current chunk is substantial, start new chunk
flush_step(c, st, paragraph) ==
    LET overlap_text == get_overlap_text(c, st.current_chunk)
        new_chunk == IF overlap_text # <<>> THEN overlap_text \o paragraph
                     ELSE paragraph
    IN [chunks |-> IF st.current_chunk # <<>>
                   THEN Append(st.chunks, strip(st.current_chunk))
                   ELSE st.chunks,
        current_chunk |-> new_chunk,
        current_size |-> WordCount(new_chunk)]

\* oversized_step saving current_chunk only when it reached min_chunk_size
oversized_step_min_only(c, st, paragraph) ==
    LET sub_chunks == split_large_paragraph(c, paragraph)
        saved == IF st.current_chunk # <<>> /\ st.current_size >= c.min
                 THEN Append(st.chunks, strip(st.current_chunk))
                 ELSE st.chunks
        last == IF sub_chunks # <<>> THEN sub_chunks[Len(sub_chunks)] ELSE <<>>
    IN [chunks |-> saved \o SubSeq(sub_chunks, 1, Len(sub_chunks) - 1),
        current_chunk |-> last,
        current_size |-> WordCount(last)]

\* oversized_step that does not save the current chunk
oversized_step_no_save(c, st, paragraph) ==
    LET sub_chunks == split_large_paragraph(c, paragraph)
        last == IF sub_chunks # <<>> THEN sub_chunks[Len(sub_chunks)] ELSE <<>>
    IN [chunks |-> st.chunks \o SubSeq(sub_chunks, 1, Len(sub_chunks) - 1),
        current_chunk |-> last,
        current_size |-> WordCount(last)]

\* Case 3: paragraph is too long, split it
oversized_step(c, st, paragraph) ==
    LET sub_chunks == split_large_paragraph(c, paragraph)
        saved == IF st.current_chunk # <<>>
                 THEN Append(st.chunks, strip(st.current_chunk))
                 ELSE st.chunks
        last == IF sub_chunks # <<>> THEN sub_chunks[Len(sub_chunks)] ELSE <<>>
    IN [chunks |-> saved \o SubSeq(sub_chunks, 1, Len(sub_chunks) - 1),
        current_chunk |-> last,
        current_size |-> WordCount(last)]

\* force_append_step assigning the size instead of adding to it
force_append_step_assign(c, st, paragraph) ==
    [chunks |-> st.chunks,
     current_chunk |-> st.current_chunk \o <<"\n", "\n">> \o paragraph,
     current_size |-> WordCount(paragraph)]

\* Case 4: add paragraph to current chunk
force_append_step(c, st, paragraph) ==
    [chunks |-> st.chunks,
     current_chunk |-> st.current_chunk \o <<"\n", "\n">> \o paragraph,
     current_size |-> st.current_size + WordCount(paragraph)]

\* tail_chunks without the min_chunk_size test
tail_chunks_any_size(c, st) ==
    IF st.current_chunk # <<>>
    THEN Append(st.chunks, strip(st.current_chunk))
    ELSE st.chunks

\* "Don't forget the last chunk": the chunks the function returns
tail_chunks(c, st) ==
    IF st.current_chunk # <<>> /\ st.current_size >= c.min
    THEN Append(st.chunks, strip(st.current_chunk))
    ELSE st.chunks

----------------------------------------------------------------------------
(* The paragraph loop as actions                                           *)

St == [chunks |-> chunks, current_chunk |-> current_chunk,
       current_size |-> current_size]

InLoop == pc = "loop" /\ idx < Len(paragraphs)

Paragraph == paragraphs[idx + 1]

\* k copies of tag
Tags(k, tag) == [i \in 1..k |-> tag]

\* the loop takes the step nst by branch b, emitting chunks tagged by tags
Take(b, nst, tags, f) ==
    /\ chunks' = nst.chunks
    /\ current_chunk' = nst.current_chunk
    /\ current_size' = nst.current_size
    /\ idx' = idx + 1
    /\ branches' = Append(branches, b)
    /\ origin' = origin \o tags
    /\ forced' = f
    /\ UNCHANGED svcVars
    /\ UNCHANGED <<cfg, raw, document_name, text, paragraphs, pc, final>>

Fits ==
    /\ InLoop
    /\ Branch(cfg, St, Paragraph) = "fits"
    /\ Take("fits", fits_step(cfg, St, Paragraph), <<>>, forced)

FlushAndRestart ==
    /\ InLoop
    /\ Branch(cfg, St, Paragraph) = "flush"
    /\ LET nst == flush_step(cfg, St, Paragraph)
       IN Take("flush", nst,
               Tags(Len(nst.chunks) - Len(chunks), [by |-> "flush", forced |-> forced]),
               FALSE)

Oversized ==
    /\ InLoop
    /\ Branch(cfg, St, Paragraph) = "oversized"
    /\ ~ForceSplitRaises(cfg, Paragraph)
    /\ LET nst == oversized_step(cfg, St, Paragraph)
           n == Len(nst.chunks) - Len(chunks)
           k == IF current_chunk # <<>> THEN 1 ELSE 0
       IN Take("oversized", nst,
               Tags(k, [by |-> "acc", forced |-> forced])
                  \o Tags(n - k, [by |-> "sub", forced |-> FALSE]),
               FALSE)

\* Case 3 when _force_split_by_words raises: the ValueError leaves
\* _create_semantic_chunks and chunk_document
OversizedRaises ==
    /\ InLoop
    /\ Branch(cfg, St, Paragraph) = "oversized"
    /\ ForceSplitRaises(cfg, Paragraph)
    /\ pc' = "ValueError"
    /\ UNCHANGED svcVars
    /\ UNCHANGED <<cfg, raw, document_name, text, paragraphs, idx, chunks,
                   current_chunk, current_size, final, branches, forced, origin>>

ForceAppend ==
    /\ InLoop
    /\ Branch(cfg, St, Paragraph) = "force"
    /\ Take("force", force_append_step(cfg, St, Paragraph), <<>>, TRUE)

EmitTail ==
    /\ pc = "loop"
    /\ idx = Len(paragraphs)
    /\ chunks' = tail_chunks(cfg, St)
    /\ origin' = origin \o Tags(Len(chunks') - Len(chunks),
                                [by |-> "tail", forced |-> forced])
    /\ pc' = "assembled"
    /\ UNCHANGED svcVars
    /\ UNCHANGED <<cfg, raw, document_name, text, paragraphs, idx, current_chunk,
                   current_size, final, branches, forced>>

----------------------------------------------------------------------------
(* Inputs of _create_semantic_chunks                                       *)

MaxParas == 3
MaxParaWords == 7

LowerSeq == <<"a","b","c","d","e","f","g","h","i","j","k","l","m">>
UpperSeq == <<"A","B","C","D","E","F","G","H","I","J","K","L","M">>

\* Word j of paragraph p: two letters, the first names the paragraph and the
\* second the position.  With style s > 0 every s-th word ends a sentence and
\* the word after it starts with a capital; style 0 has no sentence boundary.
Word(p, j, s) ==
    LET first == IF s > 0 /\ (j - 1) % s = 0 THEN UpperSeq[p] ELSE LowerSeq[p]
        stop == IF s > 0 /\ j % s = 0 THEN <<".">> ELSE <<>>
    IN <<first, LowerSeq[j]>> \o stop

Para(p, k, s) == join(<<" ">>, [j \in 1..k |-> Word(p, j, s)])

Styles == {0, 2}

\* min <= target <= max, 0 <= overlap < target, all sizes positive
Configs ==
    { [target |-> 4, min |-> 2, max |-> 6, overlap |-> 1],
      [target |-> 3, min |-> 2, max |-> 4, overlap |-> 2],
      [target |-> 4, min |-> 3, max |-> 5, overlap |-> 0],
      [target |-> 3, min |-> 1, max |-> 5, overlap |-> 1] }

Init ==
    /\ SvcIdle
    /\ cfg \in Configs
    /\ \E n \in 0..MaxParas, s \in Styles :
         \E lens \in [1..n -> 1..MaxParaWords] :
            paragraphs = [p \in 1..n |-> Para(p, lens[p], s)]
    /\ raw = <<>>
    /\ document_name = "document"
    /\ text = <<>>
    /\ idx = 0
    /\ chunks = <<>>
    /\ current_chunk = <<>>
    /\ current_size = 0
    /\ pc = "loop"
    /\ final = <<>>
    /\ branches = <<>>
    /\ forced = FALSE
    /\ origin = <<>>

Next ==
    \/ Fits
    \/ FlushAndRestart
    \/ Oversized
    \/ ForceAppend
    \/ EmitTail

Spec == Init /\ [][Next]_vars

----------------------------------------------------------------------------
(* SmartChunker._classify_chunk_type and SmartChunker._finalize_chunks     *)

\* re.search(r"^\d+\.|\n\d+\.", t)
HasNumberedLine(t) ==
    \E i \in 1..Len(t) :
        /\ i = 1 \/ t[i-1] = "\n"
        /\ LET k == SkipDigits(t, i) IN k > i /\ k <= Len(t) /\ t[k] = "."

\* re.search(r"^[bullet]|\n[bullet]", t)
HasBulletLine(t) ==
    \E i \in 1..Len(t) : (i = 1 \/ t[i-1] = "\n") /\ t[i] \in Bullet

\* re.search(r"[A-Z][A-Z\s]{10,}", t)
HasCapsRun(t) ==
    \E i \in 1..(Len(t) - 10) :
        /\ t[i] \in Upper
        /\ \A k \in (i+1)..(i+10) : t[k] \in Upper \cup WS

\* the classifier with the bullet rule tried before the numbered rule
classify_chunk_type_bullet_first(t) ==
    IF HasBulletLine(t) THEN "bullet_list"
    ELSE IF HasNumberedLine(t) THEN "numbered_list"
    ELSE IF HasCapsRun(t) THEN "heading_section"
    ELSE IF WordCount(t) < 50 THEN "short_passage"
    ELSE IF WordCount(t) > 300 THEN "long_passage"
    ELSE "standard_paragraph"

classify_chunk_type(t) ==
    IF HasNumberedLine(t) THEN "numbered_list"
    ELSE IF HasBulletLine(t) THEN "bullet_list"
    ELSE IF HasCapsRun(t) THEN "heading_section"
    ELSE IF WordCount(t) < 50 THEN "short_passage"
    ELSE IF WordCount(t) > 300 THEN "long_passage"
    ELSE "standard_paragraph"

\* the loop without the quality check
RECURSIVE FinalizeFromKeepAll(_, _, _)
FinalizeFromKeepAll(cs, name, k) ==
    IF k > Len(cs) THEN <<>>
    ELSE << [text |-> cs[k],
             document_name |-> name,
             chunk_index |-> k - 1,
             word_count |-> WordCount(cs[k]),
             char_count |-> Len(cs[k]),
             chunk_type |-> classify_chunk_type(cs[k])] >>
         \o FinalizeFromKeepAll(cs, name, k + 1)

\* the loop "for i, chunk in enumerate(chunks)", from the 1-based position k
RECURSIVE FinalizeFrom(_, _, _)
FinalizeFrom(cs, name, k) ==
    IF k > Len(cs) THEN <<>>
    ELSE (IF ~is_meaningful_text(cs[k]) THEN <<>>
          ELSE << [text |-> cs[k],
                   document_name |-> name,
                   chunk_index |-> k - 1,
                   word_count |-> WordCount(cs[k]),
                   char_count |-> Len(cs[k]),
                   chunk_type |-> classify_chunk_type(cs[k])] >>)
         \o FinalizeFrom(cs, name, k + 1)

finalize_chunks(cs, name) == FinalizeFrom(cs, name, 1)

----------------------------------------------------------------------------
(* SmartChunker.chunk_document: the steps around the paragraph loop        *)

Preprocess ==
    /\ pc = "pre"
    /\ text' = preprocess_text(raw)
    /\ pc' = "split"
    /\ UNCHANGED svcVars
    /\ UNCHANGED <<cfg, raw, document_name, paragraphs, idx, chunks, current_chunk,
                   current_size, final, branches, forced, origin>>

SplitParagraphs ==
    /\ pc = "split"
    /\ paragraphs' = split_paragraphs(text)
    /\ pc' = "loop"
    /\ UNCHANGED svcVars
    /\ UNCHANGED <<cfg, raw, document_name, text, idx, chunks, current_chunk,
                   current_size, final, branches, forced, origin>>

Finalize ==
    /\ pc = "assembled"
    /\ final' = finalize_chunks(chunks, document_name)
    /\ pc' = "done"
    /\ UNCHANGED svcVars
    /\ UNCHANGED <<cfg, raw, document_name, text, paragraphs, idx, chunks,
                   current_chunk, current_size, branches, forced, origin>>

----------------------------------------------------------------------------
(* Inputs of chunk_document                                                *)

MaxRawLen == 5
MaxDocParas == 2

\* every string of at most MaxRawLen characters of this alphabet
RawAlphabet == {"a", "B", " ", "\t", "\n", CTL}

SmallTexts == UNION {[1..n -> RawAlphabet] : n \in 0..MaxRawLen}

\* Word j of paragraph p of a document: four letters, so that a paragraph of
\* five words passes len(para) > 20.  A paragraph is one sentence.
DocWord(p, j, k) ==
    <<(IF j = 1 THEN UpperSeq[p] ELSE LowerSeq[p]), LowerSeq[j], "x", "y">>
        \o (IF j = k THEN <<".">> ELSE <<>>)

DocPara(p, k) == join(<<" ">>, [j \in 1..k |-> DocWord(p, j, k)])

DocParaLens == {5, 7, 11}

\* what stands between two paragraphs of a document: a blank line, a line
\* break, a blank line holding a no-break space or a control character
DocSeps == { <<"\n", "\n">>, <<"\n">>, <<"\n", NBSP, "\n">>, <<"\n", CTL, "\n">> }

RECURSIVE DocText(_, _, _)
DocText(lens, seps, p) ==
    IF p > Len(lens) THEN <<>>
    ELSE DocPara(p, lens[p]) \o (IF p < Len(lens) THEN seps[p] ELSE <<>>)
            \o DocText(lens, seps, p + 1)

DocTexts ==
    UNION { { DocText(lens, seps, 1) :
                lens \in [1..n -> DocParaLens], seps \in [1..(n-1) -> DocSeps] }
            : n \in 1..MaxDocParas }

\* a line of four words
ShortLine == join(<<" ">>, [j \in 1..4 |-> DocWord(2, j, 4)])

\* documents that hold the four-word line between two paragraphs
DocSandwiches ==
    { DocPara(1, k1) \o s1 \o ShortLine \o s2 \o DocPara(3, k3) :
        k1 \in DocParaLens, k3 \in DocParaLens, s1 \in DocSeps, s2 \in DocSeps }

DocConfigs ==
    { [target |-> 8, min |-> 5, max |-> 10, overlap |-> 2],
      [target |-> 8, min |-> 6, max |-> 10, overlap |-> 2],
      [target |-> 12, min |-> 5, max |-> 16, overlap |-> 2] }

DocNames == {"document", "report.pdf"}

InitDoc ==
    /\ SvcIdle
    /\ \/ /\ raw \in SmallTexts
          /\ cfg = [target |-> 8, min |-> 5, max |-> 10, overlap |-> 2]
          /\ document_name = "document"
       \/ /\ raw \in DocTexts \cup DocSandwiches
          /\ cfg \in DocConfigs
          /\ document_name \in DocNames
    /\ text = <<>>
    /\ paragraphs = <<>>
    /\ idx = 0
    /\ chunks = <<>>
    /\ current_chunk = <<>>
    /\ current_size = 0
    /\ pc = "pre"
    /\ final = <<>>
    /\ branches = <<>>
    /\ forced = FALSE
    /\ origin = <<>>

NextDoc ==
    \/ Preprocess
    \/ SplitParagraphs
    \/ Fits
    \/ FlushAndRestart
    \/ Oversized
    \/ ForceAppend
    \/ EmitTail
    \/ Finalize

SpecDoc == InitDoc /\ [][NextDoc]_vars

----------------------------------------------------------------------------
(* Properties of the Chunk Assembler (specification Spec)                  *)

RECURSIVE SumWords(_)
SumWords(ps) == IF ps = <<>> THEN 0 ELSE WordCount(Head(ps)) + SumWords(Tail(ps))

\* the current paragraph does not fit
NoFit == current_size + WordCount(Paragraph) > cfg.target

\* C2: after the paragraph loop the accumulated current_chunk is emitted as
\* the last chunk iff it is non-empty and current_size >= min_chunk_size, and
\* is dropped otherwise; when all paragraphs together have fewer than
\* min_chunk_size words and none exceeds max_chunk_size, nothing is returned.
C2_TailEmit ==
    pc = "assembled" =>
        LET n == Len(chunks)
            emitted == n > 0 /\ origin[n].by = "tail"
        IN /\ emitted <=> (current_chunk # <<>> /\ current_size >= cfg.min)
           /\ emitted => chunks[n] = strip(current_chunk)
           /\ Cardinality({i \in 1..n : origin[i].by = "tail"}) <= 1
           /\ (/\ SumWords(paragraphs) < cfg.min
               /\ \A i \in 1..Len(paragraphs) : WordCount(paragraphs[i]) <= cfg.max)
              => chunks = <<>>

\* the tail is dropped: paragraphs were accumulated, below the minimum
C2_Witness ==
    /\ pc = "assembled"
    /\ Len(paragraphs) >= 2
    /\ current_chunk # <<>>
    /\ current_size < cfg.min
    /\ chunks = <<>>

\* C3: a paragraph that does not fit while current_size >= min_chunk_size,
\* oversized or not, makes the assembler emit exactly one chunk, the trimmed
\* current_chunk, and restart current_chunk as the overlap of the flushed
\* chunk followed by the paragraph, with current_size its word count.
C3_FlushAndRestart ==
    [][ (InLoop /\ NoFit /\ current_size >= cfg.min) =>
            /\ chunks' = Append(chunks, strip(current_chunk))
            /\ current_chunk' =
                  get_overlap_text(cfg, strip(current_chunk)) \o Paragraph
            /\ current_size' = WordCount(current_chunk')
            /\ idx' = idx + 1 ]_vars

\* a flush took an oversized paragraph and carried a non-empty overlap
C3_Witness ==
    /\ pc = "loop"
    /\ idx > 0
    /\ branches[idx] = "flush"
    /\ WordCount(paragraphs[idx]) > cfg.max
    /\ chunks # <<>>
    /\ get_overlap_text(cfg, chunks[Len(chunks)]) # <<>>
    /\ current_chunk = get_overlap_text(cfg, chunks[Len(chunks)]) \o paragraphs[idx]

\* C4: a paragraph that fits leaves the emitted chunks unchanged, is appended
\* to current_chunk (after a blank line when current_chunk is non-empty, else
\* it becomes current_chunk) and adds exactly para_words to current_size.
C4_Fits ==
    [][ (InLoop /\ ~NoFit) =>
            /\ chunks' = chunks
            /\ current_chunk' = (IF current_chunk = <<>> THEN Paragraph
                                 ELSE current_chunk \o <<"\n", "\n">> \o Paragraph)
            /\ current_size' = current_size + WordCount(Paragraph)
            /\ idx' = idx + 1 ]_vars

\* two paragraphs in a row fitted: the second was joined by a blank line
C4_Witness ==
    /\ pc = "loop"
    /\ idx >= 2
    /\ branches[idx] = "fits"
    /\ branches[idx - 1] = "fits"
    /\ current_size = WordCount(paragraphs[idx - 1]) + WordCount(paragraphs[idx])

\* C5: a paragraph that does not fit while current_size < min_chunk_size and
\* that has more than max_chunk_size words makes the assembler emit, in this
\* order, current_chunk when non-empty and every sub-chunk of the Sentence
\* Splitter but the last; the last becomes current_chunk and current_size is
\* its word count.
C5_Oversized ==
    [][ (InLoop /\ NoFit /\ current_size < cfg.min
               /\ WordCount(Paragraph) > cfg.max) =>
            LET sub == split_large_paragraph(cfg, Paragraph)
            IN /\ sub # <<>>
               /\ chunks' = chunks
                     \o (IF current_chunk # <<>> THEN <<current_chunk>> ELSE <<>>)
                     \o SubSeq(sub, 1, Len(sub) - 1)
               /\ current_chunk' = sub[Len(sub)]
               /\ current_size' = WordCount(sub[Len(sub)])
               /\ idx' = idx + 1 ]_vars

\* an oversized paragraph arrived on a non-empty accumulator below the
\* minimum: the accumulator was emitted, then a sub-chunk
C5_Witness ==
    /\ pc = "loop"
    /\ idx > 0
    /\ branches[idx] = "oversized"
    /\ Len(chunks) >= 2
    /\ origin[Len(chunks)].by = "sub"
    /\ origin[Len(chunks) - 1].by = "acc"
    /\ WordCount(chunks[Len(chunks) - 1]) < cfg.min
    /\ current_chunk # <<>>

\* C6: a paragraph that does not fit while current_size < min_chunk_size and
\* that has at most max_chunk_size words is appended to current_chunk; no
\* chunk is emitted, current_size grows by para_words, and the chunk, which
\* exceeds target_chunk_size, has fewer than min + max words.
C6_ForceAppend ==
    [][ (InLoop /\ NoFit /\ current_size < cfg.min
               /\ WordCount(Paragraph) <= cfg.max) =>
            /\ chunks' = chunks
            /\ current_chunk' = current_chunk \o <<"\n", "\n">> \o Paragraph
            /\ current_size' = current_size + WordCount(Paragraph)
            /\ current_size' > cfg.target
            /\ current_size' < cfg.min + cfg.max
            /\ WordCount(current_chunk') = current_size'
            /\ idx' = idx + 1 ]_vars

\* a paragraph was force-appended to a non-empty accumulator
C6_Witness ==
    /\ pc = "loop"
    /\ idx >= 2
    /\ branches[idx] = "force"
    /\ forced
    /\ current_size > cfg.target
    /\ current_size > WordCount(paragraphs[idx])

\* C7 as stated: every returned chunk except possibly the last has at least
\* min_chunk_size words or resulted from a force-append.
C7_BoundRespecting ==
    pc = "assembled" =>
        \A i \in 1..(Len(chunks) - 1) :
            WordCount(chunks[i]) >= cfg.min \/ origin[i].forced

\* C7 amended: every returned chunk except possibly the last has at least
\* min_chunk_size words, or resulted from a force-append, or was emitted by
\* the oversized-paragraph case (the accumulator it saves, or a sub-chunk of
\* the Sentence Splitter).
C7_BoundRespectingAmended ==
    pc = "assembled" =>
        \A i \in 1..(Len(chunks) - 1) :
            \/ WordCount(chunks[i]) >= cfg.min
            \/ origin[i].forced
            \/ origin[i].by \in {"acc", "sub"}

\* a chunk below the minimum, not the last, saved by the oversized case
C7_Witness ==
    /\ pc = "assembled"
    /\ \E i \in 1..(Len(chunks) - 1) :
          /\ origin[i].by = "acc"
          /\ ~origin[i].forced
          /\ WordCount(chunks[i]) < cfg.min

\* C8 as stated: with overlap_size = N > 0, when a flush-and-restart starts
\* the next chunk and the overlap window holds no sentence boundary, the
\* first N words of the new chunk are the last N words of the flushed chunk
\* and the words of the paragraph follow them.
C8_OverlapWords ==
    [][ (/\ InLoop /\ NoFit /\ current_size >= cfg.min
         /\ cfg.overlap > 0
         /\ WordCount(current_chunk) > cfg.overlap
         /\ Len(sentence_endings_split(
                join(<<" ">>, LastN(split(current_chunk), cfg.overlap)))) <= 1) =>
            LET N == cfg.overlap
                new == split(current_chunk')
            IN /\ Len(new) >= N
               /\ SubSeq(new, 1, N) = LastN(split(current_chunk), N)
               /\ SubSeq(new, N + 1, Len(new)) = split(Paragraph) ]_vars

\* C9 as stated: every paragraph with more than max_chunk_size words is
\* handled by the oversized-paragraph case, whatever the accumulator holds.
C9_OversizedAlwaysSplit ==
    \A i \in 1..idx :
        WordCount(paragraphs[i]) > cfg.max => branches[i] = "oversized"

----------------------------------------------------------------------------
(* Properties of chunk_document and the Preprocessor (specification        *)
(* SpecDoc)                                                                *)

\* the whitespace runs between the consecutive words of s, in order
Seps(s) ==
    LET starts == WordStartSeq(s)
    IN [k \in 1..(Len(starts) - 1) |->
            SubSeq(s, WordEnd(s, starts[k]) + 1, starts[k + 1] - 1)]

\* a separator holding at least one blank line
IsBlankSep(sep) == Cardinality({i \in 1..Len(sep) : sep[i] = "\n"}) >= 2

\* a paragraph of the raw input that passes the segmenter's filter as it is
QualityPara(t) ==
    /\ t = strip(t)
    /\ \A i \in 1..Len(t) : t[i] \in Upper \cup Lower \cup {" ", "."}
    /\ Len(t) > 20
    /\ is_meaningful_text(t)

\* C1 as stated: two quality-passing paragraphs separated by a blank line
\* reach the Chunk Assembler as two paragraphs; when the first has at least
\* min_chunk_size words and fits, the two together exceed target_chunk_size
\* and the overlap plus the second stays within max_chunk_size, the result
\* is two chunks: the first paragraph alone, then the overlap_size last words
\* of the first paragraph followed by the words of the second paragraph.
C1_EndToEnd ==
    \A i \in 1..(Len(raw) - 1) :
        LET P1 == SubSeq(raw, 1, i - 1)
            P2 == SubSeq(raw, i + 2, Len(raw))
        IN (/\ raw[i] = "\n" /\ raw[i+1] = "\n"
            /\ QualityPara(P1) /\ QualityPara(P2)) =>
              /\ pc \in {"loop", "assembled", "done"} => paragraphs = <<P1, P2>>
              /\ (/\ pc = "done"
                  /\ WordCount(P1) >= cfg.min
                  /\ WordCount(P1) <= cfg.target
                  /\ WordCount(P1) > cfg.overlap
                  /\ WordCount(P1) + WordCount(P2) > cfg.target
                  /\ cfg.overlap + WordCount(P2) <= cfg.max) =>
                    /\ Len(final) = 2
                    /\ final[1].text = P1
                    /\ split(final[2].text) =
                          LastN(split(P1), cfg.overlap) \o split(P2)

\* C10 as stated: wherever the input separates two runs of text by blank
\* lines, the preprocessed text separates them by exactly "\n\n"; the
\* preprocessed text has no two adjacent spaces/tabs, no three adjacent
\* newlines and no leading or trailing whitespace.
C10_PreprocessKeepsSeparators ==
    pc # "pre" =>
        /\ split(raw) = split(text) =>
              \A k \in 1..Len(Seps(raw)) :
                  IsBlankSep(Seps(raw)[k]) => Seps(text)[k] = <<"\n", "\n">>
        /\ \A i \in 1..(Len(text) - 1) :
              ~(text[i] \in {" ", "\t"} /\ text[i+1] \in {" ", "\t"})
        /\ \A i \in 1..(Len(text) - 2) :
              ~(text[i] = "\n" /\ text[i+1] = "\n" /\ text[i+2] = "\n")
        /\ text = strip(text)

----------------------------------------------------------------------------
(* Inputs of _split_paragraphs (specification SpecSeg)                     *)

MaxSegParas == 3

\* Candidate paragraphs on either side of each test of the filter:
\*   1  five words, 25 characters: kept
\*   2  five distinct words but 14 characters
\*   3  four words
\*   4  five words, one distinct
\*   5  five words, 10 letters in 34 characters
\*   6  five words, 21 characters: kept
\*   7  five words, 20 characters
SegCandidates ==
    << DocPara(1, 5),
       join(<<" ">>, <<<<"a","b">>, <<"c","d">>, <<"e","f">>,
                       <<"g","h">>, <<"i","j">>>>),
       join(<<" ">>, [j \in 1..4 |-> DocWord(2, j, 4)]),
       join(<<" ">>, [j \in 1..5 |-> <<"a","a","a","a">>]),
       join(<<" ">>, [j \in 1..5 |-> <<LowerSeq[j], LowerSeq[j+1], "1", "2", "3", "4">>]),
       join(<<" ">>, <<<<"a","b","c","d">>, <<"e","f","g","h">>,
                       <<"i","j","k","l">>, <<"m","n","o","p">>, <<"q">>>>),
       join(<<" ">>, <<<<"a","b","c","d">>, <<"e","f","g","h">>,
                       <<"i","j","k","l">>, <<"m","n","o">>, <<"q">>>>) >>

\* cleaned texts: candidates separated by blank lines
SegTexts ==
    UNION { { join(<<"\n", "\n">>, [k \in 1..n |-> SegCandidates[pick[k]]]) :
                pick \in [1..n -> 1..Len(SegCandidates)] }
            : n \in 1..MaxSegParas }

InitSeg ==
    /\ SvcIdle
    /\ text \in SegTexts
    /\ cfg = [target |-> 8, min |-> 5, max |-> 10, overlap |-> 2]
    /\ raw = <<>>
    /\ document_name = "document"
    /\ paragraphs = <<>>
    /\ idx = 0
    /\ chunks = <<>>
    /\ current_chunk = <<>>
    /\ current_size = 0
    /\ pc = "split"
    /\ final = <<>>
    /\ branches = <<>>
    /\ forced = FALSE
    /\ origin = <<>>

NextSeg == SplitParagraphs

SpecSeg == InitSeg /\ [][NextSeg]_vars

----------------------------------------------------------------------------
(* Properties of the Paragraph Segmenter (specification SpecSeg)           *)

\* the trimmed candidate paragraphs of the cleaned text, in order
Candidates ==
    LET ps == paragraph_breaks_split(text)
    IN [k \in 1..Len(ps) |-> strip(ps[k])]

\* C11 as stated: the segmenter returns exactly the trimmed candidates that
\* pass is_meaningful, in order, each as a paragraph of its own.
C11_KeptIffMeaningful ==
    pc = "loop" => paragraphs = SelectSeq(Candidates, is_meaningful_text)

\* C11 amended: the segmenter returns exactly the trimmed candidates that are
\* longer than 20 characters and pass is_meaningful, in order, each as a
\* paragraph of its own (a dropped candidate is not merged into a neighbour).
C11_KeptIffLongAndMeaningful ==
    pc = "loop" =>
        paragraphs = SelectSeq(Candidates,
                               LAMBDA c : Len(c) > 20 /\ is_meaningful_text(c))

\* a text whose candidates are one kept, one dropped by the filter and one
\* that passes is_meaningful but has at most 20 characters
C11_Witness ==
    /\ pc = "loop"
    /\ Len(Candidates) = 3
    /\ Len(paragraphs) = 1
    /\ \E k \in 1..3 : ~is_meaningful_text(Candidates[k])
    /\ \E k \in 1..3 : is_meaningful_text(Candidates[k]) /\ Len(Candidates[k]) <= 20

----------------------------------------------------------------------------
(* Properties of chunk_document: dropped paragraphs (specification SpecDoc) *)

\* whitespace of the raw input, the no-break space included
RawWS == WS \cup {NBSP}

\* s holds only whitespace, with at least two newlines, from m to n
BlankRun(s, m, n) ==
    /\ m < n /\ s[m] = "\n" /\ s[n] = "\n"
    /\ \A q \in m..n : s[q] \in RawWS

\* s[a..b] is a line of four words with blank lines before and after it
FourWordLineBetweenBlanks(s, a, b) ==
    /\ a > 1 /\ b < Len(s) /\ a <= b
    /\ s[a-1] = "\n" /\ s[b+1] = "\n"
    /\ s[a] \notin RawWS /\ s[b] \notin RawWS
    /\ \A q \in a..b : s[q] # "\n"
    /\ WordCount(SubSeq(s, a, b)) = 4
    /\ \E m \in 1..(a-2) : BlankRun(s, m, a-1)
    /\ \E n \in (b+2)..Len(s) : BlankRun(s, b+1, n)

\* t holds l as a run of consecutive characters
Contains(t, l) ==
    \E q \in 1..(Len(t) - Len(l) + 1) : SubSeq(t, q, q + Len(l) - 1) = l

\* C12 as stated: a four-word line that blank lines surround in the input of
\* chunk_document is in no chunk that chunk_document returns.
C12_FourWordLineDropped ==
    pc = "done" =>
        \A a \in 2..Len(raw) : raw[a-1] = "\n" =>
            \A b \in a..(Len(raw) - 1) :
                FourWordLineBetweenBlanks(raw, a, b) =>
                    \A k \in 1..Len(final) :
                        ~Contains(final[k].text, SubSeq(raw, a, b))

----------------------------------------------------------------------------
(* Inputs of _finalize_chunks (specification SpecFin)                      *)

MaxFinChunks == 2

\* n two-letter words, 169 of them distinct
Prose(n) ==
    join(<<" ">>, [j \in 1..n |->
                      <<LowerSeq[((j - 1) % 13) + 1], LowerSeq[(((j - 1) \div 13) % 13) + 1]>>])

\* 20 words in 100 characters of which 60 - d are letters
AlphaText(d) ==
    join(<<" ">>,
         [j \in 1..20 |->
             <<LowerSeq[((j - 1) % 13) + 1], LowerSeq[((j - 1) \div 13) + 1],
               (IF j <= 1 + d THEN "7" ELSE "x"), "7">>
                 \o (IF j = 20 THEN <<"z">> ELSE <<>>)])

\* n words that repeat the first d words of Prose
Repeated(n, d) ==
    join(<<" ">>, [j \in 1..n |-> <<LowerSeq[((j - 1) % d) + 1], "a">>])

\* the lines of a chunk text, joined by newlines
Lines(ls) == join(<<"\n">>, ls)

Abcd == <<"a","b","c","d"," ","e","f","g","h"," ","i","j","k","l">>
Mnop == <<"m","n","o","p"," ","q","r","s","t"," ","u","v","w","x">>

\* Chunk texts on either side of each test of the filter and of each rule
\* of the classifier
FinCandidates ==
    << \* 5 words, 6 letters in 10 characters
       <<"a"," ","b"," ","c"," ","d"," ","e","f">>,
       AlphaText(0),
       AlphaText(1),
       \* 10 words, 3 distinct; 10 words, 2 distinct
       Repeated(10, 3),
       Repeated(10, 2),
       \* 4 words; 5 words
       ShortLine,
       DocPara(1, 5),
       \* a numbered line and a bullet line, in both orders
       Lines(<< <<"1","."," ">> \o Abcd, <<"-"," ">> \o Mnop >>),
       Lines(<< <<"-"," ">> \o Abcd, <<"2","."," ">> \o Mnop >>),
       \* a bullet line that holds a run of capitals
       <<"*"," ","A","B","C","D","E","F","G","H","I","J","K","L"," ">> \o Abcd \o <<" ">> \o Mnop,
       \* a numbered marker inside a line
       <<"a","b"," ","1","."," ">> \o Abcd \o <<" ">> \o Mnop,
       \* a capital followed by 10 capitals
       <<"A","B","C","D","E","F","G","H","I","J","K"," ">> \o Abcd \o <<" ">> \o Mnop,
       \* a run of 10 capitals; a run of 10 capitals and spaces
       <<"y","z","A","B","C","D","E","F","G","H","I","J","y","z"," ">> \o Abcd \o <<" ">> \o Mnop,
       <<"y","z"," ","A","B","C","D","E","F","G","H"," ">> \o Abcd \o <<" ">> \o Mnop,
       \* capitals on two lines
       Lines(<< <<"A","B","C","D","E">>, <<"F","G","H","I","J","K"," ">> \o Abcd \o <<" ">> \o Mnop >>) >>

\* prose on either side of the two word-count rules
LongTexts == { Prose(49), Prose(50), Prose(300), Prose(301) }

\* the chunks argument: short lists of candidates, or one long text
FinChunkLists ==
    UNION { { [k \in 1..n |-> FinCandidates[pick[k]]] :
                pick \in [1..n -> 1..Len(FinCandidates)] }
            : n \in 0..MaxFinChunks }
      \cup { <<t>> : t \in LongTexts }

InitFin ==
    /\ SvcIdle
    /\ chunks \in FinChunkLists
    /\ document_name \in DocNames
    /\ cfg = [target |-> 300, min |-> 100, max |-> 500, overlap |-> 50]
    /\ raw = <<>>
    /\ text = <<>>
    /\ paragraphs = <<>>
    /\ idx = 0
    /\ current_chunk = <<>>
    /\ current_size = 0
    /\ pc = "assembled"
    /\ final = <<>>
    /\ branches = <<>>
    /\ forced = FALSE
    /\ origin = <<>>

NextFin == Finalize

SpecFin == InitFin /\ [][NextFin]_vars

----------------------------------------------------------------------------
(* Properties of the quality filter and the Finalizer (specification       *)
(* SpecFin)                                                                *)

\* the texts of the returned chunks, in order
FinalTexts == [k \in 1..Len(final) |-> final[k].text]

Letters(t) == Cardinality({i \in 1..Len(t) : t[i] \in Upper \cup Lower})

DistinctWords(t) == Cardinality({split(t)[k] : k \in 1..WordCount(t)})

\* the three conditions, the thresholds included
MeetsThresholds(t) ==
    /\ WordCount(t) >= 5
    /\ Letters(t) * 10 >= Len(t) * 6
    /\ DistinctWords(t) * 10 >= WordCount(t) * 3

\* C13: a chunk text passes the filter of the Finalizer if and only if it has
\* at least 5 words, at least 0.6 of its characters are letters and at least
\* 0.3 of its words are distinct; in particular 60 letters in 100 characters
\* pass, 59 in 100 fail and 3 distinct words in 10 pass.
C13_FilterThresholds ==
    pc = "done" =>
        /\ FinalTexts = SelectSeq(chunks, MeetsThresholds)
        /\ \A k \in 1..Len(chunks) :
              /\ chunks[k] \in {AlphaText(0), Repeated(10, 3)} =>
                    \E n \in 1..Len(final) : final[n].text = chunks[k]
              /\ chunks[k] = AlphaText(1) =>
                    \A n \in 1..Len(final) : final[n].text # chunks[k]

\* the Finalizer was given the text with ratio 0.6 and the text with ratio
\* 0.59 and returned the first alone
C13_Witness ==
    /\ pc = "done"
    /\ chunks = <<AlphaText(0), AlphaText(1)>>
    /\ Letters(chunks[1]) = 60 /\ Len(chunks[1]) = 100
    /\ Letters(chunks[2]) = 59 /\ Len(chunks[2]) = 100
    /\ FinalTexts = <<AlphaText(0)>>

\* C14 as stated: the chunk_index values of the returned chunks are
\* 0, 1, ..., n-1 in output order, also when chunk texts were dropped.
C14_IndexAmongSurvivors ==
    pc = "done" => \A k \in 1..Len(final) : final[k].chunk_index = k - 1

\* C15: every returned chunk passes the quality filter and so has at least 5
\* words; the returned texts are the kept input texts in their input order;
\* word_count, char_count and document_name of a chunk agree with its text
\* and with the document_name argument.
C15_FinalChunksConsistent ==
    pc = "done" =>
        /\ \A k \in 1..Len(final) :
              /\ MeetsThresholds(final[k].text)
              /\ WordCount(final[k].text) >= 5
              /\ final[k].word_count = WordCount(final[k].text)
              /\ final[k].char_count = Len(final[k].text)
              /\ final[k].document_name = document_name
        /\ FinalTexts =
              SelectSeq(chunks, LAMBDA t : \E n \in 1..Len(final) : final[n].text = t)

\* two different chunk texts were given for "report.pdf", the second was
\* dropped and the first returned
C15_Witness ==
    /\ pc = "done"
    /\ document_name = "report.pdf"
    /\ Len(chunks) = 2
    /\ ~MeetsThresholds(chunks[2])
    /\ Len(final) = 1
    /\ final[1].text = chunks[1]
    /\ final[1].word_count = 20
    /\ final[1].char_count = 100

\* no numbered line, no bullet line, no heading
PlainProse(t) == ~HasNumberedLine(t) /\ ~HasBulletLine(t) /\ ~HasCapsRun(t)

\* C16: the chunk type is that of the first rule that matches, in the order
\* numbered line, bullet line, heading, fewer than 50 words, more than 300
\* words, standard paragraph; a text with a numbered line and a bullet line
\* is a numbered_list and plain prose of 50 to 300 words is a
\* standard_paragraph.
C16_FirstRuleWins ==
    pc = "done" =>
        \A k \in 1..Len(final) :
            LET t == final[k].text
                type == final[k].chunk_type
            IN /\ HasNumberedLine(t) => type = "numbered_list"
               /\ ~HasNumberedLine(t) /\ HasBulletLine(t) => type = "bullet_list"
               /\ ~HasNumberedLine(t) /\ ~HasBulletLine(t) /\ HasCapsRun(t) =>
                      type = "heading_section"
               /\ PlainProse(t) /\ WordCount(t) < 50 => type = "short_passage"
               /\ PlainProse(t) /\ WordCount(t) > 300 => type = "long_passage"
               /\ PlainProse(t) /\ WordCount(t) >= 50 /\ WordCount(t) <= 300 =>
                      type = "standard_paragraph"

\* a returned chunk whose first line is a bullet line and whose second line
\* is a numbered line is a numbered_list
C16_Witness ==
    /\ pc = "done"
    /\ \E k \in 1..Len(final) :
          /\ final[k].text[1] \in Bullet
          /\ HasNumberedLine(final[k].text)
          /\ final[k].chunk_type = "numbered_list"

\* a run of at least 10 consecutive uppercase letters or spaces
HasRunOfTen(t) ==
    \E i \in 1..(Len(t) - 9) : \A k \in i..(i + 9) : t[k] \in Upper \cup {" "}

\* C17 as stated: a returned chunk with no numbered and no bullet line is a
\* heading_section if and only if its text holds a run of at least 10
\* consecutive uppercase letters or spaces.
C17_HeadingRunOfTen ==
    pc = "done" =>
        \A k \in 1..Len(final) :
            LET t == final[k].text
            IN ~HasNumberedLine(t) /\ ~HasBulletLine(t) =>
                  (final[k].chunk_type = "heading_section" <=> HasRunOfTen(t))

----------------------------------------------------------------------------
(* Inputs of _split_large_paragraph (specification SpecSplit): one         *)
(* paragraph above max_chunk_size given to an empty accumulator             *)

MaxSplitWords == 9
MaxSents == 3
MaxSentWords == 4

\* Sentence k of len words: the first word starts with a capital, the last
\* ends with a period
Sentence(k, len) ==
    join(<<" ">>, [j \in 1..len |->
                      <<(IF j = 1 THEN UpperSeq[k] ELSE LowerSeq[k]), LowerSeq[j]>>
                         \o (IF j = len THEN <<".">> ELSE <<>>)])

SentPara(lens) == join(<<" ">>, [k \in 1..Len(lens) |-> Sentence(k, lens[k])])

\* paragraphs of sentences, and paragraphs without a sentence boundary
SplitParas ==
    UNION { { SentPara(lens) : lens \in [1..n -> 1..MaxSentWords] } : n \in 2..MaxSents }
      \cup { Para(1, n, 0) : n \in 1..MaxSplitWords }

SplitConfigs ==
    { [target |-> 3, min |-> 1, max |-> 3, overlap |-> 1],
      [target |-> 4, min |-> 2, max |-> 4, overlap |-> 1],
      [target |-> 3, min |-> 2, max |-> 4, overlap |-> 0],
      [target |-> 4, min |-> 1, max |-> 5, overlap |-> 2] }

InitSplit ==
    /\ SvcIdle
    /\ cfg \in SplitConfigs
    /\ \E p \in SplitParas :
          /\ WordCount(p) > cfg.max
          /\ paragraphs = <<p>>
    /\ raw = <<>>
    /\ document_name = "document"
    /\ text = <<>>
    /\ idx = 0
    /\ chunks = <<>>
    /\ current_chunk = <<>>
    /\ current_size = 0
    /\ pc = "loop"
    /\ final = <<>>
    /\ branches = <<>>
    /\ forced = FALSE
    /\ origin = <<>>

NextSplit ==
    \/ Oversized
    \/ EmitTail

SpecSplit == InitSplit /\ [][NextSplit]_vars

----------------------------------------------------------------------------
(* Properties of the Sentence Splitter (specification SpecSplit)           *)

\* the oversized case has run on the paragraph
AfterSplit == pc = "loop" /\ idx = 1 /\ branches = <<"oversized">>

\* what _split_large_paragraph returned: the sub-chunks the oversized case
\* emitted, then the one it carried forward
SubChunks == chunks \o (IF current_chunk # <<>> THEN <<current_chunk>> ELSE <<>>)

\* the sentences of the paragraph
Sentences == sentence_endings_split(paragraphs[1])

\* the words of all the texts of a sequence, in order
AllWords(ts) == FlattenRange([k \in 1..Len(ts) |-> split(ts[k])], 1, Len(ts))

\* ceil(a / b) for b > 0
CeilDiv(a, b) == (a + b - 1) \div b

\* C18 as stated: for a paragraph of n words without a sentence boundary the
\* sub-chunks are the windows words[k*s : k*s + target], s = target - overlap;
\* there are ceil((n - overlap) / s) of them, each but the last has exactly
\* target words and each shares exactly overlap words with the next.
C18_ForcedWindows ==
    AfterSplit /\ Len(Sentences) <= 1 =>
        LET words == split(paragraphs[1])
            n == Len(words)
            s == cfg.target - cfg.overlap
        IN /\ Len(SubChunks) = CeilDiv(n - cfg.overlap, s)
           /\ \A k \in 1..Len(SubChunks) :
                 split(SubChunks[k]) = Window(words, (k - 1) * s, cfg.target)
           /\ \A k \in 1..(Len(SubChunks) - 1) :
                 /\ WordCount(SubChunks[k]) = cfg.target
                 /\ cfg.overlap > 0 =>
                       LastN(split(SubChunks[k]), cfg.overlap)
                          = SubSeq(split(SubChunks[k + 1]), 1, cfg.overlap)

\* C19: for a paragraph with a sentence boundary every sub-chunk has at most
\* target_chunk_size words or is a single sentence; the sub-chunks hold the
\* sentences in their order, each once (each followed by a period); the last
\* sub-chunk holds the last sentence, however small it is.
C19_GreedyPacking ==
    AfterSplit /\ Len(Sentences) > 1 =>
        LET marked == [k \in 1..Len(Sentences) |-> strip(Sentences[k]) \o <<".">>]
        IN /\ \A k \in 1..Len(SubChunks) :
                 \/ WordCount(SubChunks[k]) <= cfg.target
                 \/ \E m \in 1..Len(marked) : SubChunks[k] = marked[m]
           /\ AllWords(SubChunks) = AllWords(marked)
           /\ SubChunks # <<>>
           /\ LET last == SubChunks[Len(SubChunks)]
                   tail == marked[Len(marked)]
               IN /\ Len(last) >= Len(tail)
                  /\ SubSeq(last, Len(last) - Len(tail) + 1, Len(last)) = tail

\* three sentences were packed into three sub-chunks: the first a single
\* sentence above target_chunk_size, the last a single word below
\* min_chunk_size, carried forward as current_chunk
C19_Witness ==
    /\ AfterSplit
    /\ Len(Sentences) = 3
    /\ Len(SubChunks) = 3
    /\ WordCount(SubChunks[1]) > cfg.target
    /\ WordCount(SubChunks[3]) = 1
    /\ cfg.min > 1
    /\ current_chunk = SubChunks[3]

----------------------------------------------------------------------------
(* Properties of the overlap carry-over (specification Spec)               *)

\* the last n words of t joined by spaces
TailWindow(t, n) == join(<<" ">>, LastN(split(t), n))

\* a word without its periods
Undotted(w) == SelectSeq(w, LAMBDA ch : ch # ".")

\* what precedes the paragraph in the chunk a flush has started
CarriedOverlap(new, paragraph) == SubSeq(new, 1, Len(new) - Len(paragraph))

\* C20: when a flush starts a new chunk, the overlap it carries is empty if
\* overlap_size is 0 or the flushed chunk has at most overlap_size words;
\* otherwise it is the window of the last overlap_size words of the flushed
\* chunk or, when the window holds a sentence boundary, its last two
\* fragments joined by ". " with a trailing period: it is non-empty, has at
\* most overlap_size words, and each of its words is a word of the window
\* (up to the added periods).
C20_OverlapCarryOver ==
    [][ (InLoop /\ NoFit /\ current_size >= cfg.min) =>
            LET ov == CarriedOverlap(current_chunk', Paragraph)
                window == TailWindow(current_chunk, cfg.overlap)
                frags == sentence_endings_split(window)
            IN /\ current_chunk' = ov \o Paragraph
               /\ IF cfg.overlap = 0 \/ WordCount(current_chunk) <= cfg.overlap
                  THEN ov = <<>>
                  ELSE /\ ov # <<>>
                       /\ ov = IF Len(frags) > 1
                               THEN strip(join(<<".", " ">>, LastN(frags, 2))) \o <<".">>
                               ELSE window
                       /\ WordCount(ov) <= cfg.overlap
                       /\ \A k \in 1..WordCount(ov) :
                             \E m \in 1..cfg.overlap :
                                 Undotted(split(ov)[k]) = Undotted(split(window)[m]) ]_vars

\* a flush carried an overlap of two words that was rebuilt from the two
\* sentence fragments of the window
C20_Witness ==
    /\ pc = "loop"
    /\ idx > 0
    /\ branches[idx] = "flush"
    /\ cfg.overlap = 2
    /\ chunks # <<>>
    /\ WordCount(chunks[Len(chunks)]) > 2
    /\ LET ov == CarriedOverlap(current_chunk, paragraphs[idx])
       IN /\ WordCount(ov) = 2
          /\ ov # TailWindow(chunks[Len(chunks)], 2)
          /\ current_chunk = ov \o paragraphs[idx]

----------------------------------------------------------------------------
(* ChunkConfig and SmartChunker.__init__ (specification SpecCfg): any      *)
(* configuration is given to the constructor, then paragraphs are           *)
(* assembled.                                                              *)

MaxCfgSize == 3
MaxCfgParas == 2
MaxCfgParaWords == 4

\* ChunkConfig(target_chunk_size, min_chunk_size, max_chunk_size,
\* overlap_size): a dataclass without __post_init__, so every combination
\* of fields is an instance
CfgSpace ==
    [target : 0..MaxCfgSize, min : 0..MaxCfgSize, max : 0..MaxCfgSize,
     overlap : 0..MaxCfgSize]

\* self.config = config or ChunkConfig()
Construct ==
    /\ pc = "new"
    /\ pc' = "loop"
    /\ UNCHANGED svcVars
    /\ UNCHANGED <<cfg, raw, document_name, text, paragraphs, idx, chunks,
                   current_chunk, current_size, final, branches, forced, origin>>

InitCfg ==
    /\ SvcIdle
    /\ cfg \in CfgSpace
    /\ \E n \in 0..MaxCfgParas, s \in Styles :
         \E lens \in [1..n -> 1..MaxCfgParaWords] :
            paragraphs = [p \in 1..n |-> Para(p, lens[p], s)]
    /\ raw = <<>>
    /\ document_name = "document"
    /\ text = <<>>
    /\ idx = 0
    /\ chunks = <<>>
    /\ current_chunk = <<>>
    /\ current_size = 0
    /\ pc = "new"
    /\ final = <<>>
    /\ branches = <<>>
    /\ forced = FALSE
    /\ origin = <<>>

NextCfg ==
    \/ Construct
    \/ Fits
    \/ FlushAndRestart
    \/ Oversized
    \/ OversizedRaises
    \/ ForceAppend
    \/ EmitTail

SpecCfg == InitCfg /\ [][NextCfg]_vars

\* the invariant of ChunkConfig: positive sizes, min <= target <= max,
\* 0 <= overlap < target
ValidConfig(c) ==
    /\ c.target > 0 /\ c.min > 0 /\ c.max > 0
    /\ c.min <= c.target /\ c.target <= c.max
    /\ c.overlap >= 0 /\ c.overlap < c.target

\* C21 as stated: no chunking runs, and none returns chunks or an empty
\* result, with a configuration that violates the invariant: such a
\* configuration is rejected at construction.
C21_InvalidConfigRejected ==
    pc \in {"loop", "assembled", "ValueError"} => ValidConfig(cfg)

----------------------------------------------------------------------------
(* One SmartChunker instance chunking several documents (specification     *)
(* SpecCalls)                                                              *)

MaxCalls == 2

\* _create_semantic_chunks as a function of its arguments: the loop from
\* paragraph k on, then the last chunk
RECURSIVE create_semantic_chunks_from(_, _, _, _)
create_semantic_chunks_from(c, ps, k, st) ==
    IF k > Len(ps)
    THEN tail_chunks(c, st)
    ELSE LET b == Branch(c, st, ps[k])
             nst == CASE b = "fits" -> fits_step(c, st, ps[k])
                      [] b = "flush" -> flush_step(c, st, ps[k])
                      [] b = "oversized" -> oversized_step(c, st, ps[k])
                      [] OTHER -> force_append_step(c, st, ps[k])
         IN create_semantic_chunks_from(c, ps, k + 1, nst)

create_semantic_chunks(c, ps) ==
    create_semantic_chunks_from(c, ps, 1,
        [chunks |-> <<>>, current_chunk |-> <<>>, current_size |-> 0])

\* chunk_document as a function of the configuration and its arguments
chunk_document(c, t, name) ==
    finalize_chunks(create_semantic_chunks(c, split_paragraphs(preprocess_text(t))), name)

\* the documents given to the instance
CallTexts ==
    { <<>>,
      DocPara(1, 5),
      DocPara(1, 11),
      DocPara(1, 7) \o <<"\n">> \o DocPara(2, 7),
      DocPara(1, 5) \o <<"\n">> \o DocPara(2, 5) }

\* the locals of a new call frame: the arguments, and every other local
\* at its first value
NewFrame(t, name) ==
    /\ raw' = t
    /\ document_name' = name
    /\ text' = <<>>
    /\ paragraphs' = <<>>
    /\ idx' = 0
    /\ current_chunk' = <<>>
    /\ current_size' = 0
    /\ final' = <<>>
    /\ branches' = <<>>
    /\ forced' = FALSE
    /\ origin' = <<>>
    /\ pc' = "pre"

\* a next call whose chunks list is the one of the call before
NextDocumentSharedChunks ==
    /\ pc = "done"
    /\ Len(log) + 1 < MaxCalls
    /\ log' = Append(log, [raw |-> raw, document_name |-> document_name, final |-> final])
    /\ \E t \in CallTexts, name \in DocNames : NewFrame(t, name)
    /\ UNCHANGED <<cfg, chunks>>
    /\ UNCHANGED <<uploadVars, embeddingVars, gatherVars, insertVars>>

\* chunk_document returns and is called again on the same instance: only
\* self.config and the compiled patterns outlive the call
NextDocument ==
    /\ pc = "done"
    /\ Len(log) + 1 < MaxCalls
    /\ log' = Append(log, [raw |-> raw, document_name |-> document_name, final |-> final])
    /\ \E t \in CallTexts, name \in DocNames : NewFrame(t, name)
    /\ chunks' = <<>>
    /\ UNCHANGED cfg
    /\ UNCHANGED <<uploadVars, embeddingVars, gatherVars, insertVars>>

InitCalls ==
    /\ SvcIdle
    /\ cfg \in DocConfigs
    /\ raw \in CallTexts
    /\ document_name \in DocNames
    /\ text = <<>>
    /\ paragraphs = <<>>
    /\ idx = 0
    /\ chunks = <<>>
    /\ current_chunk = <<>>
    /\ current_size = 0
    /\ pc = "pre"
    /\ final = <<>>
    /\ branches = <<>>
    /\ forced = FALSE
    /\ origin = <<>>

NextCalls ==
    \/ Preprocess
    \/ SplitParagraphs
    \/ Fits
    \/ FlushAndRestart
    \/ Oversized
    \/ ForceAppend
    \/ EmitTail
    \/ Finalize
    \/ NextDocument

SpecCalls == InitCalls /\ [][NextCalls]_vars

\* the calls the instance has completed, the current one included
Completed ==
    log \o (IF pc = "done"
            THEN <<[raw |-> raw, document_name |-> document_name, final |-> final]>>
            ELSE <<>>)

\* C22: chunking is deterministic and keeps no state across documents:
\* every call an instance completes returns what chunk_document gives as a
\* function of the configuration, the text and the document name alone,
\* whatever the instance chunked before; so two calls with the same text
\* and name return equal chunk sequences.
C22_Deterministic ==
    /\ \A i \in 1..Len(Completed) :
          Completed[i].final
              = chunk_document(cfg, Completed[i].raw, Completed[i].document_name)
    /\ \A i \in 1..Len(Completed), j \in 1..Len(Completed) :
          (/\ Completed[i].raw = Completed[j].raw
           /\ Completed[i].document_name = Completed[j].document_name)
          => Completed[i].final = Completed[j].final

\* a second call has completed after a call on another document, both with
\* chunks
C22_Witness ==
    /\ pc = "done"
    /\ Len(log) = 1
    /\ log[1].raw # raw
    /\ log[1].final # <<>>
    /\ final # <<>>

----------------------------------------------------------------------------
(* chunk_document with its exceptions (specification SpecRun): the         *)
(* documents of SpecDoc, and a configuration of stride 0 under which       *)
(* _force_split_by_words raises.                                           *)

StrideZeroConfig == [target |-> 8, min |-> 5, max |-> 10, overlap |-> 8]

InitRun ==
    /\ SvcIdle
    /\ \/ /\ raw \in SmallTexts
          /\ cfg = [target |-> 8, min |-> 5, max |-> 10, overlap |-> 2]
          /\ document_name = "document"
       \/ /\ raw \in DocTexts \cup DocSandwiches
          /\ cfg \in DocConfigs
          /\ document_name \in DocNames
       \/ /\ raw \in DocTexts
          /\ cfg = StrideZeroConfig
          /\ document_name = "document"
    /\ text = <<>>
    /\ paragraphs = <<>>
    /\ idx = 0
    /\ chunks = <<>>
    /\ current_chunk = <<>>
    /\ current_size = 0
    /\ pc = "pre"
    /\ final = <<>>
    /\ branches = <<>>
    /\ forced = FALSE
    /\ origin = <<>>

NextRun ==
    \/ Preprocess
    \/ SplitParagraphs
    \/ Fits
    \/ FlushAndRestart
    \/ Oversized
    \/ OversizedRaises
    \/ ForceAppend
    \/ EmitTail
    \/ Finalize

SpecRun == InitRun /\ [][NextRun]_vars

\* a division of _is_meaningful_text that chunk_document is about to run
\* raises
QualityCheckRaises ==
    \/ /\ pc = "split"
       /\ \E k \in 1..Len(Candidates) :
             Len(Candidates[k]) > 20 /\ is_meaningful_text_raises(Candidates[k])
    \/ /\ pc = "assembled"
       /\ \E k \in 1..Len(chunks) : is_meaningful_text_raises(chunks[k])

\* every paragraph, or every chunk, was filtered as low-quality
AllFiltered ==
    \/ paragraphs = <<>>
    \/ \A k \in 1..Len(chunks) : ~is_meaningful_text(chunks[k])

\* the statements of chunk_document in the order they run
Position(p) ==
    CASE p = "pre" -> 1
      [] p = "split" -> 2
      [] p = "loop" -> 3
      [] p = "assembled" -> 4
      [] OTHER -> 5

\* a step moves chunk_document forward: to a later statement, or to the
\* next paragraph of the list the loop runs over
Advances ==
    \/ Position(pc') > Position(pc)
    \/ /\ pc = "loop" /\ pc' = "loop"
       /\ idx' = idx + 1
       /\ idx' <= Len(paragraphs)
       /\ paragraphs' = paragraphs

\* C23: with a valid configuration chunk_document completes without
\* raising for every input text, the empty string, whitespace-only text and
\* text without sentence or paragraph boundary included: no statement
\* raises and every step moves the call forward through its finitely many
\* statements and paragraphs; and when every paragraph or chunk is filtered
\* as low-quality it returns an empty sequence.
C23_CompletesWithoutRaising ==
    /\ [](ValidConfig(cfg) => (pc # "ValueError" /\ ~QualityCheckRaises))
    /\ [][Advances]_vars
    /\ []((pc = "done" /\ AllFiltered) => final = <<>>)

\* a text, not the empty string, has been chunked to the empty sequence
\* with a valid configuration
C23_Witness ==
    /\ pc = "done"
    /\ ValidConfig(cfg)
    /\ raw # <<>>
    /\ final = <<>>
    /\ AllFiltered

----------------------------------------------------------------------------
(* The accumulator of the Chunk Assembler (specification Spec)             *)

\* C25: at the start of every loop iteration and after the loop,
\* current_size is the number of whitespace-delimited words of
\* current_chunk, whichever branches handled the paragraphs before.
C25_SizeIsWordCount ==
    pc \in {"loop", "assembled"} => current_size = WordCount(current_chunk)

\* after a flush that carried overlap words over, and after a force-append
C25_Witness ==
    /\ pc = "loop"
    /\ idx >= 2
    /\ branches[idx] = "flush"
    /\ current_size > WordCount(paragraphs[idx])
    /\ \E k \in 1..idx : branches[k] = "force"

\* what paragraph k was put into the chunks as: its sub-chunks when case 3
\* split it, else the paragraph
Units(k) ==
    IF branches[k] = "oversized"
    THEN split_large_paragraph(cfg, paragraphs[k])
    ELSE <<paragraphs[k]>>

\* the units of the paragraphs the loop has consumed, in input order
ConsumedUnits == FlattenRange([k \in 1..idx |-> Units(k)], 1, idx)

\* the last chunk is dropped
TailDropped == pc = "assembled" /\ current_chunk # <<>> /\ current_size < cfg.min

\* the emitted chunks, then the accumulated chunk while it is not emitted
Pool ==
    chunks \o (IF pc = "loop" \/ TailDropped THEN <<current_chunk>> ELSE <<>>)

\* units i.. are held by chunks j.. of pool, in order
RECURSIVE PlacedFrom(_, _, _, _)
PlacedFrom(units, pool, i, j) ==
    IF i > Len(units) THEN TRUE
    ELSE \E m \in j..Len(pool) :
            /\ Contains(pool[m], units[i])
            /\ PlacedFrom(units, pool, i + 1, m)

\* C26: no paragraph is lost other than in the tail drop: the text of
\* every consumed paragraph, as its sub-chunks when case 3 split it, is
\* held, in input order, by an emitted chunk or by the accumulated chunk,
\* which is missing from the result only when the tail is dropped for
\* having fewer than min_chunk_size words.
C26_NoParagraphLost ==
    pc \in {"loop", "assembled"} =>
        /\ PlacedFrom(ConsumedUnits, Pool, 1, 1)
        /\ (pc = "assembled" /\ ~TailDropped) =>
              PlacedFrom(ConsumedUnits, chunks, 1, 1)

\* a split paragraph and a flushed chunk are in the result, and the tail
\* was dropped
C26_Witness ==
    /\ TailDropped
    /\ idx = Len(paragraphs)
    /\ Len(chunks) >= 2
    /\ \E k \in 1..idx : branches[k] = "oversized"

----------------------------------------------------------------------------
(* utils/text_cleaner.py                                                   *)

\* clean_text(text, lowercase=False)
clean_text(s) ==
    LET t1 == nfkc(s)
        \* "".join(ch for ch in text if ch.isprintable() or ch == "\n")
        t2 == SelectSeq(t1, LAMBDA c : isprintable(c) \/ c = "\n")
        \* re.sub(r"\s+", " ", text)
        t3 == sub_runs(WS, 1, <<" ">>, t2)
    IN strip(t3)

----------------------------------------------------------------------------
(* utils/exception_handler.py and the except clauses of upload_file        *)

\* the exceptions of the application: subclasses of QdrantSearchError
ClientErrors ==
    {"FileTooLargeError", "EmptyFileError", "UnsupportedFileTypeError",
     "FileExtractionError", "InvalidQueryError"}

ServerErrors ==
    {"EmbeddingGenerationError", "EmbeddingServiceError", "VectorSearchError",
     "QdrantServiceError", "OpenAIServiceError", "RustServiceError",
     "SummarizationError", "SummaryGenerationError", "QdrantSearchError"}

\* handle_custom_exception(e): the HTTPException it returns
handle_custom_exception(e) ==
    IF e.kind \in ClientErrors
    THEN [status |-> 400, detail |-> e.detail]
    ELSE IF e.kind \in ServerErrors
    THEN [status |-> 500, detail |-> e.kind]
    ELSE [status |-> 500, detail |-> "Internal server error"]

\* except clauses that turn every exception into a 500
upload_except_all_500(e) ==
    [status |-> 500, detail |-> "An unexpected error occurred during file processing"]

\* the except clauses of upload_file: what the client receives when e is
\* raised inside the try block
upload_except(e) ==
    IF e.kind \in ClientErrors \cup ServerErrors
    THEN handle_custom_exception(e)
    ELSE IF e.kind = "HTTPException"
    THEN [status |-> e.status, detail |-> e.detail]
    ELSE [status |-> 500, detail |-> "An unexpected error occurred during file processing"]

HTTP_400_BAD_REQUEST == 400

HTTPException(status, detail) ==
    [kind |-> "HTTPException", status |-> status, detail |-> detail]

Raised(kind) == [kind |-> kind, status |-> 0, detail |-> kind]

----------------------------------------------------------------------------
(* routes/upload.py, upload_file (specification SpecUpload)                *)

MAX_FILE_SIZE == 50 * 1024 * 1024

SupportedTypes ==
    {"application/pdf", "text/plain",
     "application/vnd.openxmlformats-officedocument.wordprocessingml.document"}

\* ChunkConfig(target_chunk_size=250, min_chunk_size=80, max_chunk_size=400,
\* overlap_size=40)
UploadConfig == [target |-> 250, min |-> 80, max |-> 400, overlap |-> 40]

MaxUploadWords == 90
MaxUploadParas == 7

\* texts that extract_text returns (it strips them): nothing, a few words,
\* words that a tab separates, and documents long enough for one chunk,
\* on one line and as paragraphs that a blank line or a line break
\* separates
UploadTexts ==
    { <<>>,
      Prose(6),
      <<"a", "a", "\t", "a", "b">>,
      Prose(MaxUploadWords),
      Prose(MaxUploadWords \div 2) \o <<"\n", "\n">> \o Prose(MaxUploadWords \div 2),
      join(<<"\n">>, [p \in 1..MaxUploadParas |-> DocPara(p, 13)]) }

\* file.filename: None or a name
Filenames == {"", "report.pdf"}

\* the value OpenAI returns for a text
embedding_of(chunk) == <<"embedding", chunk>>

\* str(uuid.uuid4()) of item i
uuid4(i) == <<"uuid4", i>>

\* the items_to_insert loop of upload_file
build_items(chunk_data, embedded_chunks, f) ==
    [i \in 1..Len(embedded_chunks) |->
        LET has_metadata == i <= Len(chunk_data)
        IN [id |-> uuid4(i),
            embedding |-> embedded_chunks[i].embedding,
            payload |->
               [text |-> embedded_chunks[i].chunk,
                file_name |-> f.filename,
                content_type |-> f.content_type,
                chunk_index |-> IF has_metadata THEN chunk_data[i].chunk_index
                                ELSE i - 1,
                word_count |-> IF has_metadata THEN chunk_data[i].word_count
                               ELSE WordCount(embedded_chunks[i].chunk),
                chunk_type |-> IF has_metadata THEN chunk_data[i].chunk_type
                               ELSE "standard_paragraph"]]]

\* upload_file has called function f
Called(f) == \E k \in 1..Len(steps) : steps[k] = f

\* e is raised inside the try block: the except clauses answer
Respond(e) ==
    /\ response' = upload_except(e)
    /\ pc' = "responded"

\* lines 29-52: read the file and validate it
ReadAndValidate ==
    /\ pc = "upload"
    /\ steps' = Append(steps, "read")
    /\ IF file.size > MAX_FILE_SIZE
       THEN Respond(HTTPException(HTTP_400_BAD_REQUEST, "File too large"))
       ELSE IF file.size = 0
       THEN Respond(HTTPException(HTTP_400_BAD_REQUEST, "Empty file uploaded"))
       ELSE IF file.content_type \notin SupportedTypes
       THEN Respond(HTTPException(HTTP_400_BAD_REQUEST, "Unsupported file type"))
       ELSE pc' = "extract" /\ UNCHANGED response
    /\ UNCHANGED <<cfg, raw, document_name, text, paragraphs, idx, chunks, current_chunk,
                   current_size, final, branches, forced, origin>>
    /\ UNCHANGED <<log, file, embeddingVars, gatherVars, insertVars>>

\* line 54: extract_text returns the text of the file, or pdfplumber or
\* python-docx fail and it raises FileExtractionError
ExtractText ==
    /\ pc = "extract"
    /\ steps' = Append(steps, "extract_text")
    /\ \/ pc' = "chunk" /\ UNCHANGED response
       \/ /\ file.content_type # "text/plain"
          /\ Respond(Raised("FileExtractionError"))
    /\ UNCHANGED <<cfg, raw, document_name, text, paragraphs, idx, chunks, current_chunk,
                   current_size, final, branches, forced, origin>>
    /\ UNCHANGED <<log, file, embeddingVars, gatherVars, insertVars>>

\* lines 58-80: clean_text, chunk_document and the test of its result
CleanAndChunk ==
    /\ pc = "chunk"
    /\ steps' = steps \o <<"clean_text", "chunk_document">>
    /\ LET cleaned_text == clean_text(file.extracted)
           name == IF file.filename # "" THEN file.filename ELSE "document"
           chunk_data == chunk_document(cfg, cleaned_text, name)
       IN /\ raw' = cleaned_text
          /\ document_name' = name
          /\ text' = preprocess_text(cleaned_text)
          /\ paragraphs' = split_paragraphs(preprocess_text(cleaned_text))
          /\ final' = chunk_data
          /\ IF chunk_data = <<>>
             THEN Respond(HTTPException(HTTP_400_BAD_REQUEST,
                                        "No meaningful text chunks found for embedding."))
             ELSE pc' = "embed" /\ UNCHANGED response
    /\ UNCHANGED <<cfg, idx, chunks, current_chunk, current_size, branches, forced, origin>>
    /\ UNCHANGED <<log, file, embeddingVars, gatherVars, insertVars>>

\* lines 85-117: embed_chunks returns one result per chunk, or raises what
\* get_embedding raised; then the items are built
EmbedChunks ==
    /\ pc = "embed"
    /\ steps' = Append(steps, "embed_chunks")
    /\ \/ LET embedded_chunks ==
                  [i \in 1..Len(final) |->
                      [chunk |-> final[i].text, embedding |-> embedding_of(final[i].text)]]
          IN /\ gathered' = [kind |-> "returned", value |-> embedded_chunks]
             /\ IF embedded_chunks = <<>>
                THEN /\ Respond(HTTPException(HTTP_400_BAD_REQUEST,
                                              "No valid text chunks found for embedding."))
                     /\ UNCHANGED items_to_insert
                ELSE /\ items_to_insert' = build_items(final, embedded_chunks, file)
                     /\ pc' = "insert"
                     /\ UNCHANGED response
       \/ \E kind \in {"OpenAIServiceError", "EmbeddingGenerationError"} :
             /\ gathered' = [kind |-> kind, value |-> <<>>]
             /\ Respond(Raised(kind))
             /\ UNCHANGED items_to_insert
    /\ UNCHANGED <<cfg, raw, document_name, text, paragraphs, idx, chunks, current_chunk,
                   current_size, final, branches, forced, origin>>
    /\ UNCHANGED <<log, file, embeddingVars, embed_input, task, insertVars>>

\* lines 119-134: insert_vectors_batch returns, or the client raises
InsertVectors ==
    /\ pc = "insert"
    /\ steps' = Append(steps, "insert_vectors_batch")
    /\ \/ /\ inserted' = "returned"
          /\ response' = [status |-> 200,
                          detail |-> "File processed and embedded successfully."]
          /\ pc' = "responded"
       \/ /\ inserted' = "Exception"
          /\ Respond(Raised("Exception"))
    /\ UNCHANGED <<cfg, raw, document_name, text, paragraphs, idx, chunks, current_chunk,
                   current_size, final, branches, forced, origin>>
    /\ UNCHANGED <<log, file, embeddingVars, gatherVars>>
    /\ UNCHANGED <<items, batch_size, generate_ids, item_i, batch, upserts>>

InitUpload ==
    /\ \E size \in {0, 1, MAX_FILE_SIZE, MAX_FILE_SIZE + 1},
          content_type \in SupportedTypes \cup {"image/png"},
          filename \in Filenames,
          extracted \in UploadTexts :
         /\ size = 0 => extracted = <<>>
         /\ size = 1 => Len(extracted) <= 1
         /\ file = [size |-> size, content_type |-> content_type,
                    filename |-> filename, extracted |-> extracted]
    /\ steps = <<>>
    /\ response = [status |-> 0, detail |-> ""]
    /\ log = <<>>
    /\ EmbeddingIdle
    /\ GatherIdle
    /\ InsertIdle
    /\ cfg = UploadConfig
    /\ raw = <<>>
    /\ document_name = ""
    /\ text = <<>>
    /\ paragraphs = <<>>
    /\ idx = 0
    /\ chunks = <<>>
    /\ current_chunk = <<>>
    /\ current_size = 0
    /\ pc = "upload"
    /\ final = <<>>
    /\ branches = <<>>
    /\ forced = FALSE
    /\ origin = <<>>

NextUpload ==
    \/ ReadAndValidate
    \/ ExtractText
    \/ CleanAndChunk
    \/ EmbedChunks
    \/ InsertVectors

SpecUpload == InitUpload /\ [][NextUpload]_vars

\* one of the four rejections of the claim applies to the request
Rejected ==
    \/ file.size > MAX_FILE_SIZE
    \/ file.size = 0
    \/ file.content_type \notin SupportedTypes
    \/ Called("chunk_document") /\ final = <<>>

\* C24: a request is rejected with HTTP 400 when the file exceeds 50MB, is
\* empty, has an unsupported content type, or when the chunker returns zero
\* chunks; in each of these rejections neither the embedding service nor
\* the vector-store insertion is invoked, and the client receives the 400,
\* not a 500.
C24_RejectedWith400 ==
    /\ (pc = "responded" /\ Rejected) =>
          /\ response.status = 400
          /\ ~Called("embed_chunks")
          /\ ~Called("insert_vectors_batch")
    /\ Rejected => pc \in {"upload", "responded"}

\* a text that is not empty gave zero chunks and the request was rejected
C24_Witness ==
    /\ pc = "responded"
    /\ Called("chunk_document")
    /\ file.extracted # <<>>
    /\ final = <<>>
    /\ response.status = 400

\* every whitespace run of t replaced by one space, the other characters
\* that are not printable removed, and the ends trimmed
CollapseWhitespace(t) ==
    strip(sub_runs(WS, 1, <<" ">>,
                   SelectSeq(nfkc(t), LAMBDA c : isprintable(c) \/ c \in WS)))

\* C27 as stated: the text the chunker receives from the upload route is
\* the extracted text with every whitespace run, newlines included,
\* replaced by one space; so it holds no newline and the Paragraph
\* Segmenter yields at most one paragraph.
C27_WhitespaceRunsToOneSpace ==
    Called("chunk_document") =>
        /\ raw = CollapseWhitespace(file.extracted)
        /\ \A i \in 1..Len(raw) : raw[i] # "\n"
        /\ Len(paragraphs) <= 1

----------------------------------------------------------------------------
(* services/embedding.py, get_embedding and _make_embedding_request        *)
(* (specification SpecEmbedding)                                           *)

MaxRetries == 3

\* timeouts = [10.0, 20.0, 30.0]
timeouts == <<10, 20, 30>>

\* how one client.post of _make_embedding_request ends: the embedding; a
\* 429 or another error status (raise_for_status); a timeout or a refused
\* connection; another httpx.RequestError (a read or write error); any
\* other exception (a body that is not the expected JSON)
PostOutcomes ==
    {"ok", "status_429", "status_500", "TimeoutException", "ConnectError",
     "RequestError", "Exception"}

\* the 429 test that retries on every attempt
retry_rate_limited_always(status, a, m) == status = "status_429"

\* e.response.status_code == 429 and attempt < max_retries - 1
retry_rate_limited(status, a, m) == status = "status_429" /\ a < m - 1

\* get_embedding ends with result r
EndEmbedding(r) ==
    /\ embedding' = r
    /\ pc' = "embedding_done"

\* for attempt in range(max_retries): the next attempt calls
\* _make_embedding_request
NextAttempt ==
    /\ pc = "get_embedding"
    /\ attempt < max_retries
    /\ requests' = requests + 1
    /\ timeout_i' = 0
    /\ pc' = "post"
    /\ UNCHANGED <<max_retries, attempt, posts, last_exception, embedding>>
    /\ UNCHANGED <<chunkerLocals, log, uploadVars, gatherVars, insertVars>>

\* "If we get here, all retries failed"
RetriesExhausted ==
    /\ pc = "get_embedding"
    /\ attempt >= max_retries
    /\ IF last_exception = "TimeoutException"
       THEN EndEmbedding("OpenAIServiceError")
       ELSE IF last_exception = "RequestError"
       THEN EndEmbedding("OpenAIServiceError")
       ELSE EndEmbedding("EmbeddingGenerationError")
    /\ UNCHANGED <<max_retries, attempt, timeout_i, requests, posts, last_exception>>
    /\ UNCHANGED <<chunkerLocals, log, uploadVars, gatherVars, insertVars>>

\* one client.post ends, with the except clauses of _make_embedding_request
\* and of get_embedding that its outcome reaches
Post ==
    /\ pc = "post"
    /\ \E outcome \in PostOutcomes :
         /\ posts' = Append(posts, [attempt |-> attempt, i |-> timeout_i,
                                    outcome |-> outcome])
         /\ CASE outcome = "ok" ->
                  /\ EndEmbedding("vector")
                  /\ UNCHANGED <<attempt, timeout_i, last_exception>>
              [] outcome \in {"TimeoutException", "ConnectError"} ->
                  IF timeout_i = Len(timeouts) - 1
                  THEN \* EmbeddingGenerationError, taken by "except Exception"
                       /\ EndEmbedding("EmbeddingGenerationError")
                       /\ UNCHANGED <<attempt, timeout_i, last_exception>>
                  ELSE /\ timeout_i' = timeout_i + 1
                       /\ UNCHANGED <<attempt, last_exception, embedding, pc>>
              [] outcome \in {"status_429", "status_500"} ->
                  /\ last_exception' = "HTTPStatusError"
                  /\ IF retry_rate_limited(outcome, attempt, max_retries)
                     THEN /\ attempt' = attempt + 1
                          /\ pc' = "get_embedding"
                          /\ UNCHANGED <<timeout_i, embedding>>
                     ELSE /\ EndEmbedding("OpenAIServiceError")
                          /\ UNCHANGED <<attempt, timeout_i>>
              [] outcome = "RequestError" ->
                  \* retried, or the last attempt falls out of the loop
                  /\ last_exception' = "RequestError"
                  /\ attempt' = attempt + 1
                  /\ pc' = "get_embedding"
                  /\ UNCHANGED <<timeout_i, embedding>>
              [] OTHER ->
                  /\ EndEmbedding("EmbeddingGenerationError")
                  /\ UNCHANGED <<attempt, timeout_i, last_exception>>
    /\ UNCHANGED <<max_retries, requests>>
    /\ UNCHANGED <<chunkerLocals, log, uploadVars, gatherVars, insertVars>>

\* no chunk_document call is running
ChunkerIdle ==
    /\ cfg = UploadConfig
    /\ raw = <<>>
    /\ document_name = ""
    /\ text = <<>>
    /\ paragraphs = <<>>
    /\ idx = 0
    /\ chunks = <<>>
    /\ current_chunk = <<>>
    /\ current_size = 0
    /\ final = <<>>
    /\ branches = <<>>
    /\ forced = FALSE
    /\ origin = <<>>

InitEmbedding ==
    /\ ChunkerIdle
    /\ log = <<>>
    /\ UploadIdle
    /\ GatherIdle
    /\ InsertIdle
    /\ max_retries \in 0..MaxRetries
    /\ attempt = 0
    /\ timeout_i = 0
    /\ requests = 0
    /\ posts = <<>>
    /\ last_exception = "None"
    /\ embedding = "None"
    /\ pc = "get_embedding"

NextEmbedding ==
    \/ NextAttempt
    \/ Post
    \/ RetriesExhausted

\* every client.post ends: httpx.Timeout bounds it
SpecEmbedding == InitEmbedding /\ [][NextEmbedding]_vars /\ WF_vars(NextEmbedding)

\* post k is the last one of the call
LastPost(k) == k = Len(posts) /\ pc = "embedding_done"

\* C28, the state part: at most max_retries calls of
\* _make_embedding_request; the call ends with a vector, OpenAIServiceError
\* or EmbeddingGenerationError; a 429 is followed by another attempt only
\* while attempt < max_retries - 1 and else ends the call with
\* OpenAIServiceError, as every other error status does at once; the third
\* timeout of one _make_embedding_request ends the call with
\* EmbeddingGenerationError.
RetryPolicy ==
    /\ requests <= max_retries
    /\ pc = "embedding_done" =>
          embedding \in {"vector", "OpenAIServiceError", "EmbeddingGenerationError"}
    /\ \A k \in 1..Len(posts) :
          /\ (posts[k].outcome = "status_429" /\ posts[k].attempt < max_retries - 1)
                => (/\ ~LastPost(k)
                    /\ pc = "embedding_done" => requests > posts[k].attempt + 1)
          /\ (\/ posts[k].outcome = "status_500"
              \/ (posts[k].outcome = "status_429"
                    /\ posts[k].attempt >= max_retries - 1))
                => (LastPost(k) /\ embedding = "OpenAIServiceError")
          /\ (posts[k].outcome \in {"TimeoutException", "ConnectError"}
                /\ posts[k].i = Len(timeouts) - 1)
                => (LastPost(k) /\ embedding = "EmbeddingGenerationError")
          /\ posts[k].outcome = "ok" => (LastPost(k) /\ embedding = "vector")

----------------------------------------------------------------------------
(* services/embedding.py, embed_chunks, and the items upload_file builds   *)
(* from its result (specification SpecGather)                              *)

MaxEmbedChunks == 6

\* asyncio.Semaphore(5)
SemaphoreLimit == 5

\* chunk_data of upload_file: chunk k of the document; two chunks can hold
\* the same text
ChunkData(n) ==
    [k \in 1..n |->
        LET t == IF k % 2 = 1 THEN Abcd ELSE Mnop
        IN [text |-> t, document_name |-> "document", chunk_index |-> k - 1,
            word_count |-> WordCount(t), char_count |-> Len(t),
            chunk_type |-> "short_passage"]]

\* the tasks that hold the semaphore: their get_embedding is in flight
InFlight == {i \in 1..Len(task) : task[i].state = "running"}

\* "async with semaphore" enters without a limit
semaphore_free_unbounded(held) == TRUE

\* "async with semaphore" enters: the counter is above 0
semaphore_free(held) == held < SemaphoreLimit

\* embed_single(chunk) of task i enters the semaphore and calls
\* get_embedding
Acquire ==
    /\ pc \in {"embed_chunks", "gathered", "items_built"}
    /\ \E i \in 1..Len(task) :
         /\ task[i].state = "pending"
         /\ semaphore_free(Cardinality(InFlight))
         /\ task' = [task EXCEPT ![i].state = "running"]
    /\ UNCHANGED <<embed_input, gathered, items_to_insert, pc>>
    /\ UNCHANGED <<chunkerLocals, log, uploadVars, embeddingVars, insertVars>>

\* get_embedding of task i returns and embed_single returns
\* {"chunk": chunk, "embedding": embedding}, or get_embedding raises; the
\* semaphore is released
Complete ==
    /\ pc \in {"embed_chunks", "gathered", "items_built"}
    /\ \E i \in 1..Len(task) :
         /\ task[i].state = "running"
         /\ \/ task' = [task EXCEPT
                            ![i] = [state |-> "done",
                                    value |-> [chunk |-> embed_input[i],
                                               embedding |-> embedding_of(embed_input[i])]]]
            \/ \E kind \in {"OpenAIServiceError", "EmbeddingGenerationError"} :
                  task' = [task EXCEPT ![i] = [state |-> "raised", value |-> kind]]
    /\ UNCHANGED <<embed_input, gathered, items_to_insert, pc>>
    /\ UNCHANGED <<chunkerLocals, log, uploadVars, embeddingVars, insertVars>>

\* asyncio.gather(*tasks) returns the results in the order of the tasks
GatherReturns ==
    /\ pc = "embed_chunks"
    /\ \A i \in 1..Len(task) : task[i].state = "done"
    /\ gathered' = [kind |-> "returned",
                    value |-> [i \in 1..Len(task) |-> task[i].value]]
    /\ pc' = "gathered"
    /\ UNCHANGED <<embed_input, task, items_to_insert>>
    /\ UNCHANGED <<chunkerLocals, log, uploadVars, embeddingVars, insertVars>>

\* asyncio.gather(*tasks) raises what a task raised; the other tasks go on
GatherRaises ==
    /\ pc = "embed_chunks"
    /\ \E i \in 1..Len(task) :
         /\ task[i].state = "raised"
         /\ gathered' = [kind |-> task[i].value, value |-> <<>>]
    /\ pc' = "gathered"
    /\ UNCHANGED <<embed_input, task, items_to_insert>>
    /\ UNCHANGED <<chunkerLocals, log, uploadVars, embeddingVars, insertVars>>

\* upload_file pairs embedded_chunks[i] with chunk_data[i]["metadata"]
BuildItems ==
    /\ pc = "gathered"
    /\ gathered.kind = "returned"
    /\ gathered.value # <<>>
    /\ items_to_insert' = build_items(final, gathered.value, file)
    /\ pc' = "items_built"
    /\ UNCHANGED <<embed_input, task, gathered>>
    /\ UNCHANGED <<chunkerLocals, log, uploadVars, embeddingVars, insertVars>>

InitGather ==
    /\ \E n \in 0..MaxEmbedChunks :
         /\ final = ChunkData(n)
         \* chunks = [chunk["text"] for chunk in chunk_data]
         /\ embed_input = [k \in 1..n |-> ChunkData(n)[k].text]
         \* tasks = [embed_single(chunk) for chunk in chunks]
         /\ task = [k \in 1..n |-> [state |-> "pending", value |-> "None"]]
    /\ gathered = [kind |-> "None", value |-> <<>>]
    /\ items_to_insert = <<>>
    /\ pc = "embed_chunks"
    /\ cfg = UploadConfig
    /\ raw = <<>>
    /\ document_name = ""
    /\ text = <<>>
    /\ paragraphs = <<>>
    /\ idx = 0
    /\ chunks = <<>>
    /\ current_chunk = <<>>
    /\ current_size = 0
    /\ branches = <<>>
    /\ forced = FALSE
    /\ origin = <<>>
    /\ log = <<>>
    /\ UploadIdle
    /\ EmbeddingIdle
    /\ InsertIdle

NextGather ==
    \/ Acquire
    \/ Complete
    \/ GatherReturns
    \/ GatherRaises
    \/ BuildItems

SpecGather == InitGather /\ [][NextGather]_vars

\* C29: embed_chunks never has more than 5 get_embedding calls in flight,
\* for any number of chunks and any interleaving of their completions, and
\* it returns one result per input chunk in the input order (result i holds
\* chunk i and its embedding), so the item upload_file builds from result i
\* and the metadata of chunk i describes one chunk.
C29_BoundedConcurrencyInOrder ==
    /\ Cardinality(InFlight) <= 5
    /\ gathered.kind = "returned" =>
          /\ Len(gathered.value) = Len(embed_input)
          /\ \A i \in 1..Len(embed_input) :
                /\ gathered.value[i].chunk = embed_input[i]
                /\ gathered.value[i].embedding = embedding_of(embed_input[i])
    /\ pc = "items_built" =>
          /\ Len(items_to_insert) = Len(final)
          /\ \A i \in 1..Len(final) :
                /\ items_to_insert[i].payload.text = final[i].text
                /\ items_to_insert[i].payload.chunk_index = final[i].chunk_index
                /\ items_to_insert[i].embedding = embedding_of(final[i].text)

\* five calls are in flight, the later ones before the first, while a task
\* waits for the semaphore
C29_Witness ==
    /\ Cardinality(InFlight) = 5
    /\ \E i \in 1..Len(task) :
          /\ task[i].state = "pending"
          /\ \E j \in i + 1..Len(task) : task[j].state = "running"

----------------------------------------------------------------------------
(* services/qdrant_service.py, insert_vectors_batch (specification         *)
(* SpecInsert)                                                             *)

MaxItems == 4
MaxBatchSize == 3

\* item.get("id"): None when the item has no id
NoId == <<"None">>

\* the id string of item k
ItemId(k) == <<"id", k>>

\* no id, the empty string, or an id string
Ids(k) == {NoId, <<>>, ItemId(k)}

\* not point_id
Falsy(point_id) == point_id \in {NoId, <<>>}

\* the batch is sent only when it is full
batch_is_sent_when_full(len_batch, i, n, size) == len_batch = size

\* len(batch) == batch_size or i == len(items)
batch_is_sent(len_batch, i, n, size) == len_batch = size \/ i = n

\* one iteration of "for i, item in enumerate(items, 1)"
InsertItem ==
    /\ pc = "insert_vectors_batch"
    /\ item_i < Len(items)
    /\ LET i == item_i + 1
           item == items[i]
           point_id == IF generate_ids /\ Falsy(item.id) THEN uuid4(i) ELSE item.id
           point == [id |-> point_id, vector |-> item.embedding, payload |-> item.payload]
       IN IF Falsy(point_id)
          THEN /\ inserted' = "QdrantServiceError"
               /\ pc' = "insert_done"
               /\ UNCHANGED <<item_i, batch, upserts>>
          ELSE /\ item_i' = i
               /\ IF batch_is_sent(Len(batch) + 1, i, Len(items), batch_size)
                  THEN \* client.upsert(points=batch); batch.clear()
                       /\ upserts' = Append(upserts, Append(batch, point))
                       /\ batch' = <<>>
                  ELSE /\ batch' = Append(batch, point)
                       /\ UNCHANGED upserts
               /\ UNCHANGED <<inserted, pc>>
    /\ UNCHANGED <<items, batch_size, generate_ids>>
    /\ UNCHANGED <<chunkerLocals, log, uploadVars, embeddingVars, gatherVars>>

\* the loop is over: the function returns None
InsertReturns ==
    /\ pc = "insert_vectors_batch"
    /\ item_i = Len(items)
    /\ inserted' = "returned"
    /\ pc' = "insert_done"
    /\ UNCHANGED <<items, batch_size, generate_ids, item_i, batch, upserts>>
    /\ UNCHANGED <<chunkerLocals, log, uploadVars, embeddingVars, gatherVars>>

InitInsert ==
    /\ \E n \in 0..MaxItems :
         \E ids \in [1..n -> UNION {Ids(k) : k \in 1..n}] :
            /\ \A k \in 1..n : ids[k] \in Ids(k)
            /\ items = [k \in 1..n |->
                           [id |-> ids[k], embedding |-> <<"embedding", k>>,
                            payload |-> [chunk_index |-> k - 1]]]
    /\ batch_size \in 1..MaxBatchSize
    /\ generate_ids \in BOOLEAN
    /\ item_i = 0
    /\ batch = <<>>
    /\ upserts = <<>>
    /\ inserted = "None"
    /\ pc = "insert_vectors_batch"
    /\ ChunkerIdle
    /\ log = <<>>
    /\ UploadIdle
    /\ EmbeddingIdle
    /\ GatherIdle

NextInsert ==
    \/ InsertItem
    \/ InsertReturns

SpecInsert == InitInsert /\ [][NextInsert]_vars

\* every item has an id
AllHaveId == \A k \in 1..Len(items) : ~Falsy(items[k].id)

\* the points sent, in the order of the upsert calls
Sent == FlattenRange(upserts, 1, Len(upserts))

\* C30: for n items that all have an id and batch_size >= 1,
\* insert_vectors_batch calls upsert exactly ceil(n / batch_size) times;
\* every item is sent in exactly one batch, in input order; every batch is
\* non-empty and has at most batch_size points; for n = 0 no upsert is
\* made.  If an item has no id and generate_ids is false,
\* QdrantServiceError is raised.
C30_Batching ==
    pc = "insert_done" =>
        /\ (AllHaveId /\ batch_size >= 1) =>
              /\ inserted = "returned"
              /\ Len(upserts) = CeilDiv(Len(items), batch_size)
              /\ Len(Sent) = Len(items)
              /\ \A k \in 1..Len(items) :
                    /\ Sent[k].id = items[k].id
                    /\ Sent[k].vector = items[k].embedding
                    /\ Sent[k].payload = items[k].payload
              /\ \A b \in 1..Len(upserts) :
                    Len(upserts[b]) >= 1 /\ Len(upserts[b]) <= batch_size
              /\ Len(items) = 0 => upserts = <<>>
        /\ (~AllHaveId /\ ~generate_ids) => inserted = "QdrantServiceError"

\* four items with ids went out as a full batch and a last, shorter one
C30_Witness ==
    /\ pc = "insert_done"
    /\ AllHaveId
    /\ Len(items) = 4
    /\ batch_size = 3
    /\ Len(upserts) = 2
    /\ Len(upserts[2]) = 1

====
